---- MODULE Spec2Model ----
(***************************************************************************)
(* Model of the WhatsApp task bot of lose_notion: the per-phone chat       *)
(* context store (tasks/context_storage.py), the flow handlers under       *)
(* tasks/handlers/ and the helpers they call.                              *)
(*                                                                         *)
(* Conventions                                                             *)
(*   - a Python str is a tuple of one-character strings, so that strip,    *)
(*     lower, isdigit, int, startswith, find and split are computed;       *)
(*   - a Python value is [py |-> type, val |-> content], see below; a date *)
(*     is its day number, and its ISO text is the letter d and the digits  *)
(*     of that number.                                                     *)
(***************************************************************************)
EXTENDS Integers, Sequences, FiniteSets, TLC

VARIABLES
    ctx,            \* WhatsApp Chat Context doctype: one document per phone number
    sprint_board,   \* Sprint Board doctype: the persisted tasks, in insertion order
    sent,           \* outgoing WhatsApp Message documents of the event being handled
    lastEvent,      \* the inbound event handled last
    handledBy,      \* the handler that consumed lastEvent
    raised          \* whether an exception escaped from that handler

vars == <<ctx, sprint_board, sent, lastEvent, handledBy, raised>>

-----------------------------------------------------------------------------
(* Python str primitives over tuples of characters                          *)

UpperChars == <<"A","B","C","D","E","F","G","H","I","J","K","L","M",
                "N","O","P","Q","R","S","T","U","V","W","X","Y","Z">>
LowerChars == <<"a","b","c","d","e","f","g","h","i","j","k","l","m",
                "n","o","p","q","r","s","t","u","v","w","x","y","z">>
DigitChars == <<"0","1","2","3","4","5","6","7","8","9">>
Whitespace == {" ", "\n", "\t"}

Range(f) == {f[i] : i \in DOMAIN f}

Min(a, b) == IF a < b THEN a ELSE b

LowerChar(c) ==
    IF \E i \in 1..26 : UpperChars[i] = c
    THEN LowerChars[CHOOSE i \in 1..26 : UpperChars[i] = c]
    ELSE c

\* str.lower()
Lower(s) == [i \in 1..Len(s) |-> LowerChar(s[i])]

\* str.strip()
Strip(s) ==
    LET keep == {i \in 1..Len(s) : s[i] \notin Whitespace}
    IN  IF keep = {} THEN << >>
        ELSE LET lo == CHOOSE i \in keep : \A j \in keep : i <= j
                 hi == CHOOSE i \in keep : \A j \in keep : j <= i
             IN  SubSeq(s, lo, hi)

\* str.isdigit()
IsDigit(s) == Len(s) > 0 /\ \A i \in 1..Len(s) : s[i] \in Range(DigitChars)

DigitValue(c) == (CHOOSE i \in 1..10 : DigitChars[i] = c) - 1

\* int(s) for a string of digits
RECURSIVE ToInt(_)
ToInt(s) ==
    IF Len(s) = 0 THEN 0
    ELSE 10 * ToInt(SubSeq(s, 1, Len(s) - 1)) + DigitValue(s[Len(s)])

\* str.startswith(t)
StartsWith(s, t) == Len(t) <= Len(s) /\ SubSeq(s, 1, Len(t)) = t

\* str.find(t): 1-based position of the first occurrence, 0 when absent
Find(s, t) ==
    LET hits == {i \in 1..(Len(s) - Len(t) + 1) : SubSeq(s, i, i + Len(t) - 1) = t}
    IN  IF hits = {} THEN 0 ELSE CHOOSE i \in hits : \A j \in hits : i <= j

\* t in s
Contains(s, t) == Len(t) = 0 \/ Find(s, t) > 0

\* str.split(sep) for a one-character separator
RECURSIVE SplitOn(_, _)
SplitOn(s, sep) ==
    LET hits == {i \in 1..Len(s) : s[i] = sep}
    IN  IF hits = {} THEN <<s>>
        ELSE LET i == CHOOSE k \in hits : \A j \in hits : k <= j
             IN  <<SubSeq(s, 1, i - 1)>> \o SplitOn(SubSeq(s, i + 1, Len(s)), sep)

\* str.split(): on runs of whitespace, no empty fields
RECURSIVE SplitWhitespace(_)
SplitWhitespace(s) ==
    LET t == Strip(s)
        hits == {i \in 1..Len(t) : t[i] \in Whitespace}
    IN  IF Len(t) = 0 THEN << >>
        ELSE IF hits = {} THEN <<t>>
        ELSE LET i == CHOOSE k \in hits : \A j \in hits : k <= j
             IN  <<SubSeq(t, 1, i - 1)>> \o SplitWhitespace(SubSeq(t, i + 1, Len(t)))

\* Python slices s[:n] and s[-n:]
Prefix(s, n) == SubSeq(s, 1, Min(n, Len(s)))
Suffix(s, n) == SubSeq(s, Len(s) - Min(n, Len(s)) + 1, Len(s))

-----------------------------------------------------------------------------
(* JSON documents, as json.dumps writes and json.loads reads them: every    *)
(* node carries its JSON type in `js`                                       *)

JsString(s) == [js |-> "string", val |-> s]
JsNumber(n) == [js |-> "number", val |-> n]
JsNull      == [js |-> "null", val |-> << >>]
JsArray(l)  == [js |-> "array", val |-> l]
JsObject(d) == [js |-> "object", val |-> d]

-----------------------------------------------------------------------------
(* Python values: every value carries its type in `py`                      *)
(*   str   val: tuple of characters     int   val: integer                  *)
(*   date  val: day number              none  val: << >>                    *)
(*   list  val: tuple of values         dict  val: tuple of <<key, value>>, *)
(*                                            in insertion order            *)

PyStr(s)  == [py |-> "str", val |-> s]
PyInt(n)  == [py |-> "int", val |-> n]
PyDate(n) == [py |-> "date", val |-> n]
PyNone    == [py |-> "none", val |-> << >>]
PyList(l) == [py |-> "list", val |-> l]
PyDict(d) == [py |-> "dict", val |-> d]

\* a == b on values of any two types
PyEq(a, b) == a.py = b.py /\ a.val = b.val

\* key in d
HasKey(d, k) == \E i \in 1..Len(d.val) : d.val[i][1] = k

\* d[k], for a key that is present
Get(d, k) == d.val[CHOOSE i \in 1..Len(d.val) : d.val[i][1] = k][2]

\* d.get(k, default)
GetOr(d, k, default) == IF HasKey(d, k) THEN Get(d, k) ELSE default

\* d[k] = x: in place for a present key, appended for a new one
SetKey(d, k, x) ==
    IF HasKey(d, k)
    THEN PyDict([i \in 1..Len(d.val) |-> IF d.val[i][1] = k THEN <<k, x>> ELSE d.val[i]])
    ELSE PyDict(Append(d.val, <<k, x>>))

\* bool(x) of Python
Truthy(x) ==
    CASE x.py = "none" -> FALSE
      [] x.py = "int"  -> x.val # 0
      [] x.py = "date" -> TRUE
      [] OTHER         -> Len(x.val) > 0

-----------------------------------------------------------------------------
(* Dates (frappe.utils.getdate / today / add_days, str(date))               *)

Today == 10

\* str(date): the ISO text of a day, here the letter d and the day number
RECURSIVE Digits(_)
Digits(n) ==
    IF n < 10 THEN <<DigitChars[n + 1]>>
    ELSE Append(Digits(n \div 10), DigitChars[(n % 10) + 1])

IsoText(n) == <<"d">> \o Digits(n)

\* str(x) for a date or a str
str(x) == IF x.py = "date" THEN PyStr(IsoText(x.val)) ELSE x

\* getdate(x) for a date or the ISO text of one
getdate(x) == IF x.py = "date" THEN x ELSE PyDate(ToInt(Tail(x.val)))

today == PyStr(IsoText(Today))

add_days(d, n) == PyDate(d.val + n)

\* what dateparser / dateutil answer for a text that is none of the three
\* keywords: no date at all, or some date
NoDate == 0 - 1
MaxAhead == 3
DateParserOutcomes == {NoDate, Today + MaxAhead}

s_today == <<"t","o","d","a","y">>
s_tomorrow == <<"t","o","m","o","r","r","o","w">>
s_yesterday == <<"y","e","s","t","e","r","d","a","y">>

\* parse_date(date_str): date_str is a str or None; `parsed` is the answer of
\* the external parsers, consulted only after the keywords
parse_date(date_str, parsed) ==
    IF ~Truthy(date_str) THEN getdate(today)
    ELSE LET t == Lower(Strip(date_str.val))
         IN  IF t = s_today THEN getdate(today)
             ELSE IF t = s_tomorrow THEN add_days(getdate(today), 1)
             ELSE IF t = s_yesterday THEN add_days(getdate(today), 0 - 1)
             ELSE IF parsed # NoDate THEN PyDate(parsed)
             ELSE getdate(today)

\* format_date_display(date_obj)
format_date_display(date_obj) ==
    IF ~Truthy(date_obj) THEN "Today"
    ELSE IF date_obj = getdate(today) THEN "Today"
    ELSE IF date_obj = add_days(getdate(today), 1) THEN "Tomorrow"
    ELSE "Mon DD"

-----------------------------------------------------------------------------
(* The User doctype (external, read only) and the two look-ups on it        *)

Phone1 == <<"5","5","1">>
Phone2 == <<"5","5","2">>
Phones == {Phone1, Phone2}

u_john  == [name |-> <<"j","o","@","x">>, full_name |-> <<"J","o","h","n"," ","R","o","e">>,
            email |-> <<"j","o","@","x">>, mobile_no |-> <<"+","5","5","1">>,
            enabled |-> 1, user_type |-> "System User"]
u_alice == [name |-> <<"a","l","@","x">>, full_name |-> <<"A","l","i","c","e"," ","N","g">>,
            email |-> <<"a","l","@","x">>, mobile_no |-> << >>,
            enabled |-> 1, user_type |-> "System User"]
u_alan  == [name |-> <<"a","n","@","x">>, full_name |-> <<"A","l","a","n"," ","P","o","e">>,
            email |-> <<"a","n","@","x">>, mobile_no |-> << >>,
            enabled |-> 1, user_type |-> "System User"]
u_bob   == [name |-> <<"b","o","@","x">>, full_name |-> << >>,
            email |-> <<"b","o","@","x">>, mobile_no |-> << >>,
            enabled |-> 1, user_type |-> "System User"]

\* a disabled user: no phone lookup and no search finds her, while the tasks
\* assigned to her stay hers
u_dora  == [name |-> <<"d","o","@","x">>, full_name |-> <<"D","o","r","a"," ","K","i","m">>,
            email |-> <<"d","o","@","x">>, mobile_no |-> <<"+","5","5"," ","3">>,
            enabled |-> 0, user_type |-> "System User"]

UserTable == <<u_john, u_alice, u_alan, u_bob, u_dora>>

\* the ["name", "full_name", "email"] row a query returns, as a dict
UserFields(u) ==
    PyDict(<< <<"name", PyStr(u.name)>>, <<"full_name", PyStr(u.full_name)>>,
              <<"email", PyStr(u.email)>> >>)

\* the first of the rows a query matched, as frappe.db.get_value returns it
\* (None when there is none)
FirstUser(rows) ==
    IF Len(rows) = 0 THEN PyNone ELSE UserFields(rows[1])

RemoveChars(s, drop) == SelectSeq(s, LAMBDA c : c \notin drop)

\* get_user_by_phone(phone_number)
get_user_by_phone(phone_number) ==
    LET phone == RemoveChars(phone_number, {" ", "-", "+"})
        last10 == Suffix(phone, 10)
        Match(u) == u.enabled = 1 /\ Contains(u.mobile_no, last10)
    IN  FirstUser(SelectSeq(UserTable, Match))

\* frappe.db.get_value("User", user_name, ["full_name", "email"], as_dict=True)
get_user_doc(user_name) ==
    LET Match(u) == u.name = user_name
    IN  FirstUser(SelectSeq(UserTable, Match))

\* x["full_name"] or x["email"]
display_of(u) ==
    IF Truthy(Get(u, "full_name")) THEN Get(u, "full_name") ELSE Get(u, "email")

\* _calculate_match_score(search_term, user)
_calculate_match_score(search_term, user) ==
    LET Scored(full_name, email, email_prefix, name_parts) ==
            LET \* the character-overlap fallback, then the bonus for a short name
                Bonus(score) == IF score > 0 /\ Len(full_name) < 20 THEN score + 5 ELSE score
                Fallback(score) ==
                    Bonus(IF score = 0 /\ \E i \in 1..Len(name_parts) :
                                              Contains(name_parts[i], search_term)
                          THEN score + 20 ELSE score)
            IN  IF search_term = full_name \/ search_term = email THEN 100
                ELSE Fallback((IF \E i \in 1..Len(name_parts) :
                                      StartsWith(name_parts[i], search_term)
                               THEN 50 ELSE 0)
                              + (IF Contains(full_name, search_term) THEN 40 ELSE 0)
                              + (IF StartsWith(email_prefix, search_term) THEN 45
                                 ELSE IF Contains(email_prefix, search_term) THEN 30 ELSE 0))
        WithEmail(email) ==
            Scored(Lower(user.full_name), email,
                   IF Contains(email, <<"@">>) THEN SplitOn(email, "@")[1] ELSE email,
                   SplitWhitespace(Lower(user.full_name)))
    IN  WithEmail(Lower(user.email))

\* list.sort(key=score, reverse=True): stable, highest score first
RECURSIVE SortByScore(_)
SortByScore(scored) ==
    IF Len(scored) = 0 THEN << >>
    ELSE LET best == CHOOSE i \in 1..Len(scored) :
                        /\ \A j \in 1..Len(scored) : scored[j][1] <= scored[i][1]
                        /\ \A j \in 1..(i - 1) : scored[j][1] < scored[i][1]
             rest == [k \in 1..(Len(scored) - 1) |->
                        IF k < best THEN scored[k] ELSE scored[k + 1]]
         IN  <<scored[best]>> \o SortByScore(rest)

FuzzyLimit == 3

\* fuzzy_search_user(search_term, limit=3) for a str search_term; the result
\* is the list of user dicts
fuzzy_search_user(term) ==
    LET Ranked(scored_users) ==
            [i \in 1..Min(FuzzyLimit, Len(scored_users)) |-> scored_users[i][2]]
        Scores(search_term, users) ==
            [i \in 1..Len(users) |->
                <<_calculate_match_score(search_term, users[i]), UserFields(users[i])>>]
        Search(search_term) ==
            LET ByEmail(u) == u.enabled = 1 /\ u.email = search_term
                ByName(u) == u.enabled = 1 /\ Len(u.full_name) > 0
                             /\ Lower(u.full_name) = search_term
                Found(exact_match, exact_name) ==
                    IF Truthy(exact_match) THEN <<exact_match>>
                    ELSE IF Truthy(exact_name) THEN <<exact_name>>
                    ELSE Ranked(SortByScore(SelectSeq(
                            Scores(search_term,
                                   SelectSeq(UserTable, LAMBDA u :
                                        u.enabled = 1 /\ u.user_type = "System User")),
                            LAMBDA p : p[1] > 0)))
            IN  Found(FirstUser(SelectSeq(UserTable, ByEmail)),
                      FirstUser(SelectSeq(UserTable, ByName)))
    IN  IF Len(term) = 0 THEN << >> ELSE Search(Lower(Strip(term)))

-----------------------------------------------------------------------------
(* tasks/context_storage.py: the chat context of a phone number.  The       *)
(* context_data field of a document holds JSON text; the model keeps the    *)
(* node that text parses to, JsInvalid when the text is not JSON.           *)

JsInvalid == [js |-> "invalid", val |-> << >>]

\* json.loads raised JSONDecodeError
JSONDecodeError == [py |-> "raise", val |-> << >>]

\* the node of a text that the caller passed as a str: a number, null, a
\* quoted string, or a bare word, which is not JSON
ParseText(s) ==
    CASE IsDigit(s) ->
            IF Len(s) > 1 /\ s[1] = "0" THEN JsInvalid ELSE JsNumber(ToInt(s))
      [] s = <<"n","u","l","l">> -> JsNull
      [] Len(s) >= 2 /\ s[1] = "\"" /\ s[Len(s)] = "\""
         /\ \A i \in 2..(Len(s) - 1) : s[i] \in Range(LowerChars) ->
            JsString(SubSeq(s, 2, Len(s) - 1))
      [] Len(s) > 0 /\ s # <<"n","u","l","l">> /\ s # <<"t","r","u","e">>
         /\ s # <<"f","a","l","s","e">> /\ \A i \in 1..Len(s) : s[i] \in Range(LowerChars) ->
            JsInvalid

\* json.dumps(x, default=str): a date is not JSON and goes through str
RECURSIVE json_dumps(_)
json_dumps(x) ==
    CASE x.py = "str"  -> JsString(x.val)
      [] x.py = "int"  -> JsNumber(x.val)
      [] x.py = "none" -> JsNull
      [] x.py = "date" -> JsString(str(x).val)
      [] x.py = "list" -> JsArray([i \in 1..Len(x.val) |-> json_dumps(x.val[i])])
      [] x.py = "dict" ->
            JsObject([i \in 1..Len(x.val) |-> <<x.val[i][1], json_dumps(x.val[i][2])>>])

\* json.loads(j)
RECURSIVE json_loads(_)
json_loads(j) ==
    CASE j.js = "string" -> PyStr(j.val)
      [] j.js = "number" -> PyInt(j.val)
      [] j.js = "null"   -> PyNone
      [] j.js = "invalid" -> JSONDecodeError
      [] j.js = "array"  -> PyList([i \in 1..Len(j.val) |-> json_loads(j.val[i])])
      [] j.js = "object" ->
            PyDict([i \in 1..Len(j.val) |-> <<j.val[i][1], json_loads(j.val[i][2])>>])

\* no WhatsApp Chat Context document of that name
NoDoc == [exists |-> FALSE, context_type |-> "", context_data |-> JsNull]

\* get_context(phone_number) on the store c: None or the dict
\* {"context_type", "context_data"}; context_type stays a bare string here
get_context(c, phone_number) ==
    IF c[phone_number].exists
    THEN [found |-> TRUE, context_type |-> c[phone_number].context_type,
          context_data |-> json_loads(c[phone_number].context_data)]
    ELSE [found |-> FALSE, context_type |-> "", context_data |-> PyNone]

\* set_context that leaves the context_type of an existing document as it is
set_context_keeps_type(c, phone_number, context_type, context_data) ==
    LET text == IF context_data.py # "str" THEN json_dumps(context_data)
                ELSE ParseText(context_data.val)
    IN  IF c[phone_number].exists
        THEN [c EXCEPT ![phone_number].context_data = text]
        ELSE [c EXCEPT ![phone_number] =
                [exists |-> TRUE, context_type |-> context_type, context_data |-> text]]

\* set_context(phone_number, context_type, context_data): the store after it
set_context(c, phone_number, context_type, context_data) ==
    LET text == IF context_data.py # "str" THEN json_dumps(context_data)
                ELSE ParseText(context_data.val)
    IN  IF c[phone_number].exists
        THEN [c EXCEPT ![phone_number].context_type = context_type,
                       ![phone_number].context_data = text]
        ELSE [c EXCEPT ![phone_number] =
                [exists |-> TRUE, context_type |-> context_type, context_data |-> text]]

\* clear_context that empties the document instead of deleting it
clear_context_emptied(c, phone_number) ==
    IF c[phone_number].exists
    THEN [c EXCEPT ![phone_number].context_type = "", ![phone_number].context_data = JsNull]
    ELSE c

\* clear_context(phone_number): the store after it; a missing document is
\* the DoesNotExistError that the function swallows
clear_context(c, phone_number) ==
    IF c[phone_number].exists THEN [c EXCEPT ![phone_number] = NoDoc] ELSE c

\* has_context(phone_number, context_type); context_type "" is Python None
has_context(c, phone_number, context_type) ==
    IF c[phone_number].exists
    THEN IF context_type # "" THEN c[phone_number].context_type = context_type ELSE TRUE
    ELSE FALSE

\* get_context_data(phone_number, context_type)
get_context_data(c, phone_number, context_type) ==
    LET context == get_context(c, phone_number)
    IN  IF ~context.found THEN PyNone
        ELSE IF context_type # "" /\ context.context_type # context_type THEN PyNone
        ELSE context.context_data

-----------------------------------------------------------------------------
(* tasks/whatsapp_utils.py: outgoing WhatsApp Message documents.  The text  *)
(* of a message is kept as the name of its template and the values filled   *)
(* in; a button is [id |-> the ':'-separated parts of its id, n |-> the     *)
(* ordinal printed in its description, 0 when it has none]                  *)

Button(id) == [id |-> id, n |-> 0]

\* the document send_reply inserts
send_reply(to_number, text, args) ==
    [to |-> to_number, content_type |-> "text", text |-> text, args |-> args,
     buttons |-> << >>]

\* the document send_interactive_message inserts
send_interactive_message(to_number, text, args, buttons) ==
    [to |-> to_number, content_type |-> "interactive", text |-> text, args |-> args,
     buttons |-> buttons]

-----------------------------------------------------------------------------
(* What a handler leaves behind: whether it reports the event as handled,   *)
(* the context store, the Sprint Board, the messages it sent and whether an *)
(* exception escaped from it                                                *)

Res(handled, c, b, out) ==
    [handled |-> handled, ctx |-> c, board |-> b, sent |-> out, raised |-> FALSE]

Raise(c, b, out) ==
    [handled |-> FALSE, ctx |-> c, board |-> b, sent |-> out, raised |-> TRUE]

\* a handler that ends by sending the message of `shown`, a [ctx, msg] pair
Reply(b, first, shown) == Res(TRUE, shown.ctx, b, Append(first, shown.msg))

\* a handler that ends in `listed`, a [ctx, sent] pair
Listed(b, first, listed) == Res(TRUE, listed.ctx, b, first \o listed.sent)

\* a [ctx, msg] pair as a [ctx, sent] pair
AsSent(shown) == [ctx |-> shown.ctx, sent |-> <<shown.msg>>]

-----------------------------------------------------------------------------
(* The Sprint Board doctype.  A row is                                      *)
(*   [name, task_name, status, assigned_to, deadline, created_by,           *)
(*    completed_date, last_alerted]                                         *)
(* name, task_name, assigned_to, created_by: str contents; status: one of   *)
(* the four select options; the dates: Python values (None when unset)      *)

Statuses == {"Not Started", "In Progress", "Completed", "On Hold"}

\* the name given to the n-th document inserted
TaskId(n) == Digits(n)

\* frappe.db.get_value("Sprint Board", task_id, ...): the row or None
HasTask(b, task_id) == \E i \in 1..Len(b) : b[i].name = task_id
TaskRow(b, task_id) == b[CHOOSE i \in 1..Len(b) : b[i].name = task_id]

\* frappe.db.set_value("Sprint Board", task_id, field, value)
SetTaskField(b, task_id, field, value) ==
    [i \in 1..Len(b) |-> IF b[i].name = task_id THEN [b[i] EXCEPT ![field] = value] ELSE b[i]]

\* the insert creating the task as already in progress
InsertTask_in_progress(b, task_name, assigned_to, deadline, created_by) ==
    Append(b, [name |-> TaskId(Len(b) + 1), task_name |-> task_name,
               status |-> "In Progress", assigned_to |-> assigned_to,
               deadline |-> deadline, created_by |-> created_by,
               completed_date |-> PyNone, last_alerted |-> PyNone])

\* frappe.get_doc({"doctype": "Sprint Board", ...}).insert()
InsertTask(b, task_name, assigned_to, deadline, created_by) ==
    Append(b, [name |-> TaskId(Len(b) + 1), task_name |-> task_name,
               status |-> "Not Started", assigned_to |-> assigned_to,
               deadline |-> deadline, created_by |-> created_by,
               completed_date |-> PyNone, last_alerted |-> PyNone])

\* frappe.get_all("Sprint Board", filters={"status": ["!=", "Completed"],
\* "assigned_to": assigned_to}), in the order of the table
OpenTasksOf(b, assigned_to) ==
    SelectSeq(b, LAMBDA t : t.status # "Completed" /\ t.assigned_to = assigned_to)

-----------------------------------------------------------------------------
(* tasks/date_utils.py get_days_text and tasks/handlers/task_handlers.py    *)

Abs(n) == IF n < 0 THEN 0 - n ELSE n

\* get_days_text(deadline, today_date)
get_days_text(deadline, today_date) ==
    IF ~Truthy(deadline) THEN <<"N","o"," ","d","e","a","d","l","i","n","e">>
    ELSE LET days_diff == getdate(deadline).val - today_date.val
         IN  IF days_diff < 0
             THEN Digits(Abs(days_diff)) \o <<" ","d","a","y">>
                    \o (IF Abs(days_diff) > 1 THEN <<"s">> ELSE << >>) \o <<" ","o","v","e","r","d","u","e">>
             ELSE IF days_diff = 0 THEN <<"D","u","e"," ","t","o","d","a","y">>
             ELSE IF days_diff = 1 THEN <<"D","u","e"," ","t","o","m","o","r","r","o","w">>
             ELSE <<"D","u","e"," ","i","n"," ">> \o Digits(days_diff) \o <<" ","d","a","y","s">>

TASKS_PER_PAGE == 9

\* _build_status_summary(status_counts, exclude_status): the parts joined
\* into the summary, as <<key, count>>; exclude_status is a str or None
_build_status_summary(status_counts, exclude_status) ==
    LET keys == <<"not_started", "in_progress", "overdue", "on_hold">>
        Shown(k) == ~PyEq(exclude_status, PyStr(k)) /\ GetOr(status_counts, k, PyInt(0)).val > 0
        parts == SelectSeq(keys, Shown)
    IN  [i \in 1..Len(parts) |-> <<parts[i], Get(status_counts, parts[i]).val>>]

\* _send_paginated_task_list(to_number, task_list, whatsapp_account,
\* header_text, status_counts, exclude_status, page): the store and the
\* message; task_list is the list of compact task dicts
_send_paginated_task_list(c, to_number, task_list, header_text, status_counts, exclude_status, page) ==
    LET total_tasks == Len(task_list.val)
        start_idx == page * TASKS_PER_PAGE
        end_idx == Min(start_idx + TASKS_PER_PAGE, total_tasks)
        has_more == end_idx < total_tasks
        found == get_context_data(c, to_number, "task_list_context")
        context == IF Truthy(found) THEN found ELSE PyDict(<< >>)
        c1 == set_context(c, to_number, "task_list_context",
                          SetKey(context, "page", PyInt(page)))
        \* range(start_idx, end_idx), 0-based, is start_idx+1..end_idx here
        page_buttons == [k \in 1..(IF end_idx > start_idx THEN end_idx - start_idx ELSE 0) |->
                            [id |-> <<"SELECT_TASK", Get(task_list.val[start_idx + k], "task_id").val>>,
                             n |-> start_idx + k]]
        buttons == IF has_more THEN Append(page_buttons, Button(<<"LOAD_MORE_TASKS">>))
                   ELSE page_buttons
    IN  [ctx |-> c1,
         msg |-> send_interactive_message(to_number, "task_list",
                    <<header_text, page, total_tasks,
                      _build_status_summary(status_counts, exclude_status)>>, buttons)]

\* send_task_list_with_numbers(to_number, task_list, whatsapp_account,
\* header_text, status_counts, exclude_status); task_list is a tuple of
\* task dicts
send_task_list_with_numbers(c, to_number, task_list, header_text, status_counts, exclude_status) ==
    IF Len(task_list) = 0
    THEN [ctx |-> c,
          msg |-> send_reply(to_number, "no_tasks_found",
                             <<_build_status_summary(status_counts, exclude_status)>>)]
    ELSE LET compact_list == PyList([i \in 1..Len(task_list) |->
                PyDict(<< <<"task_id", Get(task_list[i], "task_id")>>,
                          <<"task_title", PyStr(Prefix(Get(task_list[i], "task_title").val, 35))>>,
                          <<"days_text", Get(task_list[i], "days_text")>>,
                          <<"status", Get(task_list[i], "status")>> >>)])
             context_data == PyDict(<< <<"tasks", compact_list>>,
                                       <<"page", PyInt(0)>>,
                                       <<"status_counts", status_counts>>,
                                       <<"exclude_status", exclude_status>>,
                                       <<"header", PyStr(header_text)>> >>)
             c1 == set_context(c, to_number, "task_list_context", context_data)
         IN  _send_paginated_task_list(c1, to_number, compact_list, header_text,
                                       status_counts, exclude_status, 0)

\* the loop shared by send_my_tasks and send_remaining_tasks: On Hold rows
\* are only counted, the others are counted and listed
RECURSIVE ActiveTasks(_, _)
ActiveTasks(rows, today_date) ==
    IF Len(rows) = 0
    THEN [task_list |-> << >>, not_started |-> 0, in_progress |-> 0, overdue |-> 0,
          on_hold |-> 0]
    ELSE LET task == rows[Len(rows)]
             r == ActiveTasks(SubSeq(rows, 1, Len(rows) - 1), today_date)
             is_overdue == Truthy(task.deadline) /\ getdate(task.deadline).val < today_date.val
         IN  IF task.status = "On Hold" THEN [r EXCEPT !.on_hold = @ + 1]
             ELSE [r EXCEPT
                    !.overdue = IF is_overdue THEN @ + 1 ELSE @,
                    !.not_started = IF ~is_overdue /\ task.status = "Not Started"
                                    THEN @ + 1 ELSE @,
                    !.in_progress = IF ~is_overdue /\ task.status # "Not Started"
                                       /\ task.status = "In Progress" THEN @ + 1 ELSE @,
                    !.task_list = Append(@,
                        PyDict(<< <<"task_id", PyStr(task.name)>>,
                                  <<"task_title", PyStr(task.task_name)>>,
                                  <<"days_text", PyStr(get_days_text(task.deadline, today_date))>>,
                                  <<"status", PyStr(task.status)>>,
                                  <<"deadline", task.deadline>> >>))]

StatusCounts(r) ==
    PyDict(<< <<"not_started", PyInt(r.not_started)>>, <<"in_progress", PyInt(r.in_progress)>>,
              <<"overdue", PyInt(r.overdue)>>, <<"on_hold", PyInt(r.on_hold)>> >>)

\* sort_key(t) of send_my_tasks and send_remaining_tasks: overdue first,
\* then by deadline, no deadline last
sort_key(t, today_date) ==
    IF ~Truthy(Get(t, "deadline")) THEN <<1, 99999999>>
    ELSE LET deadline == getdate(Get(t, "deadline"))
         IN  <<IF deadline.val < today_date.val THEN 0 ELSE 1, deadline.val>>

KeyLess(a, b) == a[1] < b[1] \/ (a[1] = b[1] /\ a[2] < b[2])

\* list.sort(key=sort_key): stable
RECURSIVE SortTasks(_, _)
SortTasks(l, today_date) ==
    IF Len(l) = 0 THEN << >>
    ELSE LET first == CHOOSE i \in 1..Len(l) :
                        /\ \A j \in 1..Len(l) :
                             ~KeyLess(sort_key(l[j], today_date), sort_key(l[i], today_date))
                        /\ \A j \in 1..(i - 1) :
                             KeyLess(sort_key(l[i], today_date), sort_key(l[j], today_date))
             rest == [k \in 1..(Len(l) - 1) |-> IF k < first THEN l[k] ELSE l[k + 1]]
         IN  <<l[first]>> \o SortTasks(rest, today_date)

\* send_my_tasks(to_number, assigned_to, whatsapp_account)
send_my_tasks(c, b, to_number, assigned_to) ==
    LET Sorted(tasks, r) ==
            IF Len(tasks) = 0
            THEN [ctx |-> c, sent |-> <<send_reply(to_number, "no_pending_tasks", << >>)>>]
            ELSE IF Len(r.task_list) = 0
            THEN [ctx |-> c,
                  sent |-> <<send_reply(to_number, "no_active_tasks", <<r.on_hold>>)>>]
            ELSE AsSent(send_task_list_with_numbers(c, to_number,
                            SortTasks(r.task_list, getdate(today)), <<"Y","o","u","r"," ","P","e","n","d","i","n","g"," ","T","a","s","k","s">>,
                            StatusCounts(r), PyNone))
        Counted(tasks) == Sorted(tasks, ActiveTasks(tasks, getdate(today)))
    IN  Counted(OpenTasksOf(b, assigned_to))

\* send_remaining_tasks(to_number, assigned_to, whatsapp_account)
send_remaining_tasks(c, b, to_number, assigned_to) ==
    LET Sorted(remaining, r) ==
            IF Len(remaining) = 0
            THEN [ctx |-> clear_context(c, to_number),
                  sent |-> <<send_reply(to_number, "all_tasks_completed", << >>)>>]
            ELSE IF Len(r.task_list) = 0
            THEN [ctx |-> clear_context(c, to_number),
                  sent |-> <<send_reply(to_number, "no_active_remaining", <<r.on_hold>>)>>]
            ELSE AsSent(send_task_list_with_numbers(c, to_number,
                            SortTasks(r.task_list, getdate(today)), <<"R","e","m","a","i","n","i","n","g"," ","T","a","s","k","s">>,
                            StatusCounts(r), PyNone))
        Counted(remaining) == Sorted(remaining, ActiveTasks(remaining, getdate(today)))
    IN  Counted(OpenTasksOf(b, assigned_to))

\* handle_task_selection offering the first three statuses of its list
\* whatever the current one
handle_task_selection_unfiltered(c, b, task_id, from_number) ==
    IF ~HasTask(b, task_id)
    THEN Res(TRUE, c, b, <<send_reply(from_number, "task_not_found", << >>)>>)
    ELSE LET task_data == TaskRow(b, task_id)
             current_status == task_data.status
             c1 == set_context(c, from_number, "deadline_edit_task",
                               PyDict(<< <<"task_id", PyStr(task_id)>> >>))
             all_statuses == <<"Completed", "In Progress", "On Hold", "Not Started">>
             status_buttons == [i \in 1..3 |-> Button(<<"STATUS", all_statuses[i], task_id>>)]
         IN  Res(TRUE, c1, b,
                 <<send_interactive_message(from_number, "select_new_status",
                        <<task_data.task_name, current_status>>, status_buttons)>>)

\* handle_task_selection(task_id, from_number, whatsapp_account)
handle_task_selection(c, b, task_id, from_number) ==
    IF ~HasTask(b, task_id)
    THEN Res(TRUE, c, b, <<send_reply(from_number, "task_not_found", << >>)>>)
    ELSE LET task_data == TaskRow(b, task_id)
             current_status == task_data.status
             c1 == set_context(c, from_number, "deadline_edit_task",
                               PyDict(<< <<"task_id", PyStr(task_id)>> >>))
             all_statuses == <<"Completed", "In Progress", "On Hold", "Not Started">>
             offered == SelectSeq(all_statuses, LAMBDA s : s # current_status)
             status_buttons == [i \in 1..Min(3, Len(offered)) |->
                                    Button(<<"STATUS", offered[i], task_id>>)]
         IN  Res(TRUE, c1, b,
                 <<send_interactive_message(from_number, "select_new_status",
                        <<task_data.task_name, current_status>>, status_buttons)>>)

\* handle_status_update stamping completed_date whatever the new status
handle_status_update_always_stamps(c, b, task_id, new_status, from_number) ==
    LET Updated(task_data, b1) ==
            Listed(b1,
                   <<send_reply(from_number, "status_updated",
                                <<task_data.task_name, new_status>>)>>,
                   send_remaining_tasks(c, b1, from_number, task_data.assigned_to))
    IN  IF ~HasTask(b, task_id)
        THEN Res(TRUE, c, b, <<send_reply(from_number, "task_not_found", << >>)>>)
        ELSE Updated(TaskRow(b, task_id),
                     SetTaskField(SetTaskField(b, task_id, "status", new_status),
                                  task_id, "completed_date", today))

\* handle_status_update(task_id, new_status, from_number, whatsapp_account)
handle_status_update(c, b, task_id, new_status, from_number) ==
    LET Updated(task_data, b1) ==
            Listed(b1,
                   <<send_reply(from_number, "status_updated",
                                <<task_data.task_name, new_status>>)>>,
                   send_remaining_tasks(c, b1, from_number, task_data.assigned_to))
    IN  IF ~HasTask(b, task_id)
        THEN Res(TRUE, c, b, <<send_reply(from_number, "task_not_found", << >>)>>)
        ELSE Updated(TaskRow(b, task_id),
                     IF new_status = "Completed"
                     THEN SetTaskField(SetTaskField(b, task_id, "status", new_status),
                                       task_id, "completed_date", today)
                     ELSE SetTaskField(b, task_id, "status", new_status))

s_more == <<"m","o","r","e">>

\* the next page, as handle_more_command and handle_load_more_button send it
NextPage(c, from_number, context) ==
    LET task_list == Get(context, "tasks")
        current_page == GetOr(context, "page", PyInt(0)).val
        status_counts == GetOr(context, "status_counts", PyDict(<< >>))
        exclude_status == GetOr(context, "exclude_status", PyNone)
        header_text == GetOr(context, "header", PyStr(<<"Y","o","u","r"," ","T","a","s","k","s">>)).val
        next_page == current_page + 1
    IN  _send_paginated_task_list(c, from_number, task_list, header_text, status_counts,
                                  exclude_status, next_page)

\* context has a non-empty "tasks": `context and context.get("tasks")`
HasTaskList(context) ==
    Truthy(context) /\ Truthy(GetOr(context, "tasks", PyNone))

\* handle_more_command(message, from_number, whatsapp_account)
handle_more_command(c, b, message, from_number) ==
    LET Paged(context) ==
            IF ~HasTaskList(context) THEN Res(FALSE, c, b, << >>)
            ELSE Reply(b, << >>, NextPage(c, from_number, context))
    IN  IF Lower(Strip(message)) # s_more THEN Res(FALSE, c, b, << >>)
        ELSE Paged(get_context_data(c, from_number, "task_list_context"))

\* handle_load_more_button(from_number, whatsapp_account)
handle_load_more_button(c, b, from_number) ==
    LET Paged(context) ==
            IF ~HasTaskList(context)
            THEN Res(TRUE, c, b, <<send_reply(from_number, "no_task_list_found", << >>)>>)
            ELSE Reply(b, << >>, NextPage(c, from_number, context))
    IN  Paged(get_context_data(c, from_number, "task_list_context"))

\* handle_number_selection taking a number past the list for its last task
handle_number_selection_clamps(c, b, message, from_number) ==
    LET Selected(task_number, context) ==
            LET InList(task_list, task_index) ==
                    handle_task_selection(c, b,
                        Get(task_list[Min(task_index + 1, Len(task_list))], "task_id").val,
                        from_number)
            IN  IF task_number < 1 THEN Res(FALSE, c, b, << >>)
                ELSE IF ~HasTaskList(context) THEN Res(FALSE, c, b, << >>)
                ELSE InList(Get(context, "tasks").val, task_number - 1)
    IN  IF ~IsDigit(Strip(message)) THEN Res(FALSE, c, b, << >>)
        ELSE Selected(ToInt(Strip(message)),
                      get_context_data(c, from_number, "task_list_context"))

\* handle_number_selection counting from the first task of the stored page
handle_number_selection_on_page(c, b, message, from_number) ==
    LET Selected(task_number, context) ==
            LET InList(task_list, task_index) ==
                    IF 0 <= task_index /\ task_index < Len(task_list)
                    THEN handle_task_selection(c, b,
                            Get(task_list[task_index + 1], "task_id").val, from_number)
                    ELSE Res(TRUE, c, b,
                             <<send_reply(from_number, "invalid_number", <<Len(task_list)>>)>>)
            IN  IF task_number < 1 THEN Res(FALSE, c, b, << >>)
                ELSE IF ~HasTaskList(context) THEN Res(FALSE, c, b, << >>)
                ELSE InList(Get(context, "tasks").val,
                            GetOr(context, "page", PyInt(0)).val * TASKS_PER_PAGE
                                + task_number - 1)
    IN  IF ~IsDigit(Strip(message)) THEN Res(FALSE, c, b, << >>)
        ELSE Selected(ToInt(Strip(message)),
                      get_context_data(c, from_number, "task_list_context"))

\* handle_number_selection(message, from_number, whatsapp_account)
handle_number_selection(c, b, message, from_number) ==
    LET Selected(task_number, context) ==
            LET InList(task_list, task_index) ==
                    IF 0 <= task_index /\ task_index < Len(task_list)
                    THEN handle_task_selection(c, b,
                            Get(task_list[task_index + 1], "task_id").val, from_number)
                    ELSE Res(TRUE, c, b,
                             <<send_reply(from_number, "invalid_number", <<Len(task_list)>>)>>)
            IN  IF task_number < 1 THEN Res(FALSE, c, b, << >>)
                ELSE IF ~HasTaskList(context) THEN Res(FALSE, c, b, << >>)
                ELSE InList(Get(context, "tasks").val, task_number - 1)
    IN  IF ~IsDigit(Strip(message)) THEN Res(FALSE, c, b, << >>)
        ELSE Selected(ToInt(Strip(message)),
                      get_context_data(c, from_number, "task_list_context"))

-----------------------------------------------------------------------------
(* tasks/handlers/confirmation_handlers.py                                  *)

\* a pending task dict
PendingTask(task_name, deadline, assignee, assignee_display) ==
    PyDict(<< <<"task_name", task_name>>, <<"deadline", deadline>>,
              <<"assignee", assignee>>, <<"assignee_display", assignee_display>> >>)

\* show_task_confirmation(tasks, from_number, whatsapp_account,
\* show_add_another): the store and the preview message
show_task_confirmation(c, tasks, from_number, show_add_another) ==
    LET serializable_tasks == PyList([i \in 1..Len(tasks.val) |->
                PendingTask(Get(tasks.val[i], "task_name"),
                            str(Get(tasks.val[i], "deadline")),
                            Get(tasks.val[i], "assignee"),
                            Get(tasks.val[i], "assignee_display"))])
        c1 == set_context(c, from_number, "pending_tasks", serializable_tasks)
        task_list == [i \in 1..Len(tasks.val) |->
                <<i, Get(tasks.val[i], "task_name").val,
                  format_date_display(getdate(Get(tasks.val[i], "deadline"))),
                  Get(tasks.val[i], "assignee_display").val>>]
        buttons == IF show_add_another
                   THEN <<Button(<<"CONFIRM_TASKS">>), Button(<<"ADD_ANOTHER_TASK">>),
                          Button(<<"CHANGE_DEADLINE">>)>>
                   ELSE <<Button(<<"CONFIRM_TASKS">>), Button(<<"CHANGE_DEADLINE">>),
                          Button(<<"CANCEL_TASKS">>)>>
    IN  [ctx |-> c1,
         msg |-> send_interactive_message(from_number, "creating_tasks", task_list, buttons)]

\* the inserts of a batch as one transaction: all of its tasks or none
InsertAll_or_nothing(b, tasks, n, created_by) ==
    LET RECURSIVE Rows(_)
        Rows(k) ==
            IF k = 0 THEN b
            ELSE InsertTask(Rows(k - 1), Get(tasks[k], "task_name").val,
                            Get(tasks[k], "assignee").val,
                            getdate(Get(tasks[k], "deadline")), created_by)
    IN  IF n < Len(tasks) THEN b ELSE Rows(n)

\* the Sprint Board after the first n tasks of the batch were inserted
RECURSIVE InsertAll(_, _, _, _)
InsertAll(b, tasks, n, created_by) ==
    IF n = 0 THEN b
    ELSE LET task == tasks[n]
         IN  InsertTask(InsertAll(b, tasks, n - 1, created_by),
                        Get(task, "task_name").val, Get(task, "assignee").val,
                        getdate(Get(task, "deadline")), created_by)

\* handle_task_confirmation clearing the context before it creates the tasks
handle_task_confirmation_clears_first(c, b, action, from_number, fail_at) ==
    LET Confirmed(tasks, current_user) ==
            LET created_by == IF Truthy(current_user) THEN Get(current_user, "name").val
                              ELSE <<"A","d","m","i","n","i","s","t","r","a","t","o","r">>
                created == send_reply(from_number, "tasks_created",
                              [i \in 1..Len(tasks.val) |-> Get(tasks.val[i], "task_name").val])
                Done(b_done, c_done) ==
                    IF Truthy(current_user)
                    THEN Listed(b_done, <<created>>,
                                send_my_tasks(c_done, b_done, from_number,
                                              Get(current_user, "name").val))
                    ELSE Res(TRUE, c_done, b_done, <<created>>)
            IN  IF fail_at > 0
                THEN Res(TRUE, clear_context(c, from_number),
                         InsertAll(b, tasks.val, fail_at - 1, created_by),
                         <<send_reply(from_number, "error_creating_tasks", << >>)>>)
                ELSE Done(InsertAll(b, tasks.val, Len(tasks.val), created_by),
                          clear_context(c, from_number))
        Pending(tasks) ==
            IF ~Truthy(tasks)
            THEN Res(TRUE, c, b, <<send_reply(from_number, "no_pending_tasks_found", << >>)>>)
            ELSE IF action = "CANCEL_TASKS"
            THEN Res(TRUE, clear_context(c, from_number), b,
                     <<send_reply(from_number, "task_creation_cancelled", << >>)>>)
            ELSE IF action = "CONFIRM_TASKS"
            THEN Confirmed(tasks, get_user_by_phone(from_number))
            ELSE Res(TRUE, c, b, << >>)
    IN  Pending(get_context_data(c, from_number, "pending_tasks"))

\* handle_task_confirmation leaving the batch in the store after it created
\* the tasks
handle_task_confirmation_keeps_batch(c, b, action, from_number, fail_at) ==
    LET Confirmed(tasks, current_user) ==
            LET created_by == IF Truthy(current_user) THEN Get(current_user, "name").val
                              ELSE <<"A","d","m","i","n","i","s","t","r","a","t","o","r">>
                created == send_reply(from_number, "tasks_created",
                              [i \in 1..Len(tasks.val) |-> Get(tasks.val[i], "task_name").val])
                Done(b_done, c_done) ==
                    IF Truthy(current_user)
                    THEN Listed(b_done, <<created>>,
                                send_my_tasks(c_done, b_done, from_number,
                                              Get(current_user, "name").val))
                    ELSE Res(TRUE, c_done, b_done, <<created>>)
            IN  IF fail_at > 0
                THEN Res(TRUE, c, InsertAll(b, tasks.val, fail_at - 1, created_by),
                         <<send_reply(from_number, "error_creating_tasks", << >>)>>)
                ELSE Done(InsertAll(b, tasks.val, Len(tasks.val), created_by), c)
        Pending(tasks) ==
            IF ~Truthy(tasks)
            THEN Res(TRUE, c, b, <<send_reply(from_number, "no_pending_tasks_found", << >>)>>)
            ELSE IF action = "CANCEL_TASKS"
            THEN Res(TRUE, clear_context(c, from_number), b,
                     <<send_reply(from_number, "task_creation_cancelled", << >>)>>)
            ELSE IF action = "CONFIRM_TASKS"
            THEN Confirmed(tasks, get_user_by_phone(from_number))
            ELSE Res(TRUE, c, b, << >>)
    IN  Pending(get_context_data(c, from_number, "pending_tasks"))

\* handle_task_confirmation(action, from_number, whatsapp_account); fail_at
\* is the position in the batch of the task whose insert throws, 0 for none
handle_task_confirmation(c, b, action, from_number, fail_at) ==
    LET Confirmed(tasks, current_user) ==
            LET created_by == IF Truthy(current_user) THEN Get(current_user, "name").val
                              ELSE <<"A","d","m","i","n","i","s","t","r","a","t","o","r">>
                created == send_reply(from_number, "tasks_created",
                              [i \in 1..Len(tasks.val) |-> Get(tasks.val[i], "task_name").val])
                Done(b_done, c_done) ==
                    IF Truthy(current_user)
                    THEN Listed(b_done, <<created>>,
                                send_my_tasks(c_done, b_done, from_number,
                                              Get(current_user, "name").val))
                    ELSE Res(TRUE, c_done, b_done, <<created>>)
            IN  IF fail_at > 0
                THEN Res(TRUE, c, InsertAll(b, tasks.val, fail_at - 1, created_by),
                         <<send_reply(from_number, "error_creating_tasks", << >>)>>)
                ELSE Done(InsertAll(b, tasks.val, Len(tasks.val), created_by),
                          clear_context(c, from_number))
        Pending(tasks) ==
            IF ~Truthy(tasks)
            THEN Res(TRUE, c, b, <<send_reply(from_number, "no_pending_tasks_found", << >>)>>)
            ELSE IF action = "CANCEL_TASKS"
            THEN Res(TRUE, clear_context(c, from_number), b,
                     <<send_reply(from_number, "task_creation_cancelled", << >>)>>)
            ELSE IF action = "CONFIRM_TASKS"
            THEN Confirmed(tasks, get_user_by_phone(from_number))
            ELSE Res(TRUE, c, b, << >>)
    IN  Pending(get_context_data(c, from_number, "pending_tasks"))

\* handle_change_deadline / handle_deadline_number_selection -> _start_deadline_edit
\* _start_deadline_edit(from_number, task_index, tasks, whatsapp_account);
\* task_index is 0-based
_start_deadline_edit(c, from_number, task_index, tasks) ==
    LET task == tasks.val[task_index + 1]
        c1 == set_context(c, from_number, "deadline_edit",
                PyDict(<< <<"mode", PyStr("editing")>>, <<"index", PyInt(task_index)>>,
                          <<"tasks", tasks>> >>))
    IN  [ctx |-> c1,
         msg |-> send_interactive_message(from_number, "enter_new_deadline",
                    <<Get(task, "task_name").val>>,
                    <<Button(<<"DEADLINE_TODAY">>), Button(<<"DEADLINE_TOMORROW">>)>>)]

\* handle_change_deadline(from_number, whatsapp_account)
handle_change_deadline(c, b, from_number) ==
    LET Pending(tasks) ==
            IF ~Truthy(tasks)
            THEN Res(TRUE, c, b, <<send_reply(from_number, "no_pending_tasks_found", << >>)>>)
            ELSE IF Len(tasks.val) = 1
            THEN Reply(b, << >>, _start_deadline_edit(c, from_number, 0, tasks))
            ELSE Res(TRUE,
                     set_context(c, from_number, "deadline_edit",
                        PyDict(<< <<"mode", PyStr("selecting")>>, <<"tasks", tasks>> >>)),
                     b,
                     <<send_reply(from_number, "which_task_deadline", <<Len(tasks.val)>>)>>)
    IN  Pending(get_context_data(c, from_number, "pending_tasks"))

\* handle_deadline_number_selection taking numbers in the editing mode only
handle_deadline_number_selection_editing(c, b, message, from_number) ==
    LET Selected(tasks, task_index) ==
            IF ~Truthy(tasks)
            THEN Res(TRUE, clear_context(c, from_number), b,
                     <<send_reply(from_number, "session_expired", << >>)>>)
            ELSE IF task_index < 0 \/ task_index >= Len(tasks.val)
            THEN Res(TRUE, c, b,
                     <<send_reply(from_number, "invalid_number", <<Len(tasks.val)>>)>>)
            ELSE Reply(b, << >>, _start_deadline_edit(c, from_number, task_index, tasks))
        Selecting(context_data) ==
            IF ~Truthy(context_data)
               \/ ~PyEq(GetOr(context_data, "mode", PyNone), PyStr("editing"))
            THEN Res(FALSE, c, b, << >>)
            ELSE IF ~IsDigit(Strip(message)) THEN Res(FALSE, c, b, << >>)
            ELSE Selected(GetOr(context_data, "tasks", PyList(<< >>)),
                          ToInt(Strip(message)) - 1)
    IN  Selecting(get_context_data(c, from_number, "deadline_edit"))

\* handle_deadline_number_selection(message, from_number, whatsapp_account)
handle_deadline_number_selection(c, b, message, from_number) ==
    LET Selected(tasks, task_index) ==
            IF ~Truthy(tasks)
            THEN Res(TRUE, clear_context(c, from_number), b,
                     <<send_reply(from_number, "session_expired", << >>)>>)
            ELSE IF task_index < 0 \/ task_index >= Len(tasks.val)
            THEN Res(TRUE, c, b,
                     <<send_reply(from_number, "invalid_number", <<Len(tasks.val)>>)>>)
            ELSE Reply(b, << >>, _start_deadline_edit(c, from_number, task_index, tasks))
        Selecting(context_data) ==
            IF ~Truthy(context_data)
               \/ ~PyEq(GetOr(context_data, "mode", PyNone), PyStr("selecting"))
            THEN Res(FALSE, c, b, << >>)
            ELSE IF ~IsDigit(Strip(message)) THEN Res(FALSE, c, b, << >>)
            ELSE Selected(GetOr(context_data, "tasks", PyList(<< >>)),
                          ToInt(Strip(message)) - 1)
    IN  Selecting(get_context_data(c, from_number, "deadline_edit"))

\* _update_existing_task_deadline leaving the context as it was and sending
\* no list
_update_existing_task_deadline_keeps_target(c, b, task_id, message, from_number, parsed) ==
    LET Updated(new_deadline) ==
            IF ~(HasTask(b, task_id) /\ Len(TaskRow(b, task_id).task_name) > 0)
            THEN Res(TRUE, c, b, <<send_reply(from_number, "task_not_found", << >>)>>)
            ELSE Res(TRUE, c, SetTaskField(b, task_id, "deadline", new_deadline),
                     <<send_reply(from_number, "deadline_updated_task",
                                  <<format_date_display(new_deadline),
                                    TaskRow(b, task_id).task_name>>)>>)
    IN  Updated(parse_date(PyStr(message), parsed))

\* _update_existing_task_deadline(task_id, message, from_number,
\* whatsapp_account); parsed as in parse_date
_update_existing_task_deadline(c, b, task_id, message, from_number, parsed) ==
    LET Updated(new_deadline, current_user, c1) ==
            LET updated == send_reply(from_number, "deadline_updated_task",
                              <<format_date_display(new_deadline),
                                TaskRow(b, task_id).task_name>>)
                Saved(b1) ==
                    IF Truthy(current_user)
                    THEN Listed(b1, <<updated>>,
                                send_my_tasks(c1, b1, from_number,
                                              Get(current_user, "name").val))
                    ELSE Res(TRUE, c1, b1, <<updated>>)
            IN  IF ~(HasTask(b, task_id) /\ Len(TaskRow(b, task_id).task_name) > 0)
                THEN Res(TRUE, c1, b, <<send_reply(from_number, "task_not_found", << >>)>>)
                ELSE Saved(SetTaskField(b, task_id, "deadline", new_deadline))
    IN  Updated(parse_date(PyStr(message), parsed), get_user_by_phone(from_number),
                clear_context(c, from_number))

\* handle_deadline_input giving the new deadline to every task of the batch
handle_deadline_input_every_task(c, b, message, from_number, parsed) ==
    LET Edited(new_deadline, tasks1) ==
            Reply(b,
                  <<send_reply(from_number, "deadline_updated",
                               <<format_date_display(new_deadline)>>)>>,
                  show_task_confirmation(
                      set_context(c, from_number, "pending_tasks", tasks1),
                      PyList([i \in 1..Len(tasks1.val) |->
                          PendingTask(Get(tasks1.val[i], "task_name"),
                                      getdate(Get(tasks1.val[i], "deadline")),
                                      Get(tasks1.val[i], "assignee"),
                                      Get(tasks1.val[i], "assignee_display"))]),
                      from_number, FALSE))
        Parsed(new_deadline, task_index, tasks) ==
            Edited(new_deadline,
                   PyList([i \in 1..Len(tasks.val) |->
                       SetKey(tasks.val[i], "deadline", str(new_deadline))]))
        Editing(context_data, task_index, tasks) ==
            IF ~Truthy(context_data) \/ ~PyEq(GetOr(context_data, "mode", PyNone), PyStr("editing"))
            THEN Res(FALSE, c, b, << >>)
            ELSE IF PyEq(task_index, PyNone) \/ ~Truthy(tasks)
            THEN Res(TRUE, clear_context(c, from_number), b,
                     <<send_reply(from_number, "session_expired", << >>)>>)
            ELSE Parsed(parse_date(PyStr(message), parsed), task_index, tasks)
        Batch(context_data) ==
            Editing(context_data, GetOr(context_data, "index", PyNone),
                    GetOr(context_data, "tasks", PyList(<< >>)))
        Existing(existing_task_context, task_id) ==
            IF Truthy(existing_task_context) /\ Truthy(task_id)
            THEN _update_existing_task_deadline(c, b, task_id.val, message, from_number,
                                                parsed)
            ELSE Batch(get_context_data(c, from_number, "deadline_edit"))
        Target(existing_task_context) ==
            Existing(existing_task_context,
                     IF existing_task_context.py = "dict"
                     THEN GetOr(existing_task_context, "task_id", PyNone) ELSE PyNone)
    IN  Target(get_context_data(c, from_number, "deadline_edit_task"))

\* handle_deadline_input(message, from_number, whatsapp_account); parsed as
\* in parse_date
handle_deadline_input(c, b, message, from_number, parsed) ==
    LET Edited(new_deadline, tasks1) ==
            Reply(b,
                  <<send_reply(from_number, "deadline_updated",
                               <<format_date_display(new_deadline)>>)>>,
                  show_task_confirmation(
                      set_context(c, from_number, "pending_tasks", tasks1),
                      PyList([i \in 1..Len(tasks1.val) |->
                          PendingTask(Get(tasks1.val[i], "task_name"),
                                      getdate(Get(tasks1.val[i], "deadline")),
                                      Get(tasks1.val[i], "assignee"),
                                      Get(tasks1.val[i], "assignee_display"))]),
                      from_number, FALSE))
        Parsed(new_deadline, task_index, tasks) ==
            Edited(new_deadline,
                   PyList([i \in 1..Len(tasks.val) |->
                       IF i = task_index.val + 1
                       THEN SetKey(tasks.val[i], "deadline", str(new_deadline))
                       ELSE tasks.val[i]]))
        Editing(context_data, task_index, tasks) ==
            IF ~Truthy(context_data) \/ ~PyEq(GetOr(context_data, "mode", PyNone), PyStr("editing"))
            THEN Res(FALSE, c, b, << >>)
            ELSE IF PyEq(task_index, PyNone) \/ ~Truthy(tasks)
            THEN Res(TRUE, clear_context(c, from_number), b,
                     <<send_reply(from_number, "session_expired", << >>)>>)
            ELSE Parsed(parse_date(PyStr(message), parsed), task_index, tasks)
        Batch(context_data) ==
            Editing(context_data, GetOr(context_data, "index", PyNone),
                    GetOr(context_data, "tasks", PyList(<< >>)))
        Existing(existing_task_context, task_id) ==
            IF Truthy(existing_task_context) /\ Truthy(task_id)
            THEN _update_existing_task_deadline(c, b, task_id.val, message, from_number,
                                                parsed)
            ELSE Batch(get_context_data(c, from_number, "deadline_edit"))
        Target(existing_task_context) ==
            Existing(existing_task_context,
                     IF existing_task_context.py = "dict"
                     THEN GetOr(existing_task_context, "task_id", PyNone) ELSE PyNone)
    IN  Target(get_context_data(c, from_number, "deadline_edit_task"))

\* handle_deadline_button(deadline_type, from_number, whatsapp_account)
handle_deadline_button(c, b, deadline_type, from_number) ==
    IF deadline_type \in {"TODAY", "TOMORROW"}
    THEN [handle_deadline_input(c, b,
                IF deadline_type = "TODAY" THEN s_today ELSE s_tomorrow, from_number, NoDate)
            EXCEPT !.handled = TRUE]
    ELSE Res(TRUE, c, b, << >>)

\* handle_ambiguous_users(task_info, from_number, whatsapp_account,
\* confirmed_tasks, remaining_ambiguous): the store and the message
handle_ambiguous_users(c, task_info, from_number, confirmed_tasks, remaining_ambiguous) ==
    LET matches == Get(task_info, "matches")
        search_term == Get(task_info, "search_term")
        pending_data == PyDict(<<
            <<"task_info", PyDict(<<
                <<"task_name", Get(task_info, "task_name")>>,
                <<"deadline", str(Get(task_info, "deadline"))>>,
                <<"search_term", Get(task_info, "search_term")>>,
                <<"matches", PyList([i \in 1..Len(matches.val) |->
                    PyDict(<< <<"name", Get(matches.val[i], "name")>>,
                              <<"full_name", GetOr(matches.val[i], "full_name", PyNone)>>,
                              <<"email", GetOr(matches.val[i], "email", PyNone)>> >>)])>> >>)>>,
            <<"confirmed_tasks", confirmed_tasks>>,
            <<"remaining_ambiguous", remaining_ambiguous>> >>)
        c1 == set_context(c, from_number, "pending_task_assign", pending_data)
        buttons == [i \in 1..Min(3, Len(matches.val)) |->
                        Button(<<"ASSIGN_USER", Get(matches.val[i], "name").val>>)]
    IN  IF ~Truthy(matches)
        THEN [ctx |-> c,
              msg |-> send_reply(from_number, "user_not_found_task_not_created",
                                 <<search_term.val, Get(task_info, "task_name").val>>)]
        ELSE [ctx |-> c1,
              msg |-> send_interactive_message(from_number, "did_you_mean",
                         <<search_term.val, Get(task_info, "task_name").val>>, buttons)]

\* handle_user_selection assigning the first candidate whatever was selected
handle_user_selection_first(c, b, user_name, from_number) ==
    LET Next1(confirmed1, remaining_ambiguous, c1) ==
            IF Truthy(remaining_ambiguous)
            THEN Reply(b, << >>,
                       handle_ambiguous_users(c1, remaining_ambiguous.val[1], from_number,
                            confirmed1, PyList(Tail(remaining_ambiguous.val))))
            ELSE Reply(b, << >>, show_task_confirmation(c1, confirmed1, from_number, FALSE))
        Chosen(data, first) ==
            Next1(PyList(Append(Get(data, "confirmed_tasks").val,
                        PendingTask(Get(Get(data, "task_info"), "task_name"),
                                    str(Get(Get(data, "task_info"), "deadline")),
                                    Get(first, "name"), display_of(first)))),
                  Get(data, "remaining_ambiguous"),
                  clear_context(c, from_number))
        Pending(data) ==
            IF ~Truthy(data)
            THEN Res(TRUE, c, b, <<send_reply(from_number, "session_expired", << >>)>>)
            ELSE Chosen(data, Get(Get(data, "task_info"), "matches").val[1])
    IN  Pending(get_context_data(c, from_number, "pending_task_assign"))

\* handle_user_selection starting the confirmed tasks anew from the task it
\* resolved
handle_user_selection_forgets(c, b, user_name, from_number) ==
    LET Next1(confirmed1, remaining_ambiguous, c1) ==
            IF Truthy(remaining_ambiguous)
            THEN Reply(b, << >>,
                       handle_ambiguous_users(c1, remaining_ambiguous.val[1], from_number,
                            confirmed1, PyList(Tail(remaining_ambiguous.val))))
            ELSE Reply(b, << >>, show_task_confirmation(c1, confirmed1, from_number, FALSE))
        Chosen(data, user_doc) ==
            Next1(PyList(<<PendingTask(Get(Get(data, "task_info"), "task_name"),
                                    str(Get(Get(data, "task_info"), "deadline")),
                                    PyStr(user_name),
                                    IF Truthy(user_doc) THEN display_of(user_doc)
                                    ELSE PyStr(user_name))>>),
                  Get(data, "remaining_ambiguous"),
                  clear_context(c, from_number))
        Pending(data) ==
            IF ~Truthy(data)
            THEN Res(TRUE, c, b, <<send_reply(from_number, "session_expired", << >>)>>)
            ELSE Chosen(data, get_user_doc(user_name))
    IN  Pending(get_context_data(c, from_number, "pending_task_assign"))

\* handle_user_selection(user_name, from_number, whatsapp_account)
handle_user_selection(c, b, user_name, from_number) ==
    LET Next1(confirmed1, remaining_ambiguous, c1) ==
            IF Truthy(remaining_ambiguous)
            THEN Reply(b, << >>,
                       handle_ambiguous_users(c1, remaining_ambiguous.val[1], from_number,
                            confirmed1, PyList(Tail(remaining_ambiguous.val))))
            ELSE Reply(b, << >>, show_task_confirmation(c1, confirmed1, from_number, FALSE))
        Chosen(data, user_doc) ==
            Next1(PyList(Append(Get(data, "confirmed_tasks").val,
                        PendingTask(Get(Get(data, "task_info"), "task_name"),
                                    str(Get(Get(data, "task_info"), "deadline")),
                                    PyStr(user_name),
                                    IF Truthy(user_doc) THEN display_of(user_doc)
                                    ELSE PyStr(user_name)))),
                  Get(data, "remaining_ambiguous"),
                  clear_context(c, from_number))
        Pending(data) ==
            IF ~Truthy(data)
            THEN Res(TRUE, c, b, <<send_reply(from_number, "session_expired", << >>)>>)
            ELSE Chosen(data, get_user_doc(user_name))
    IN  Pending(get_context_data(c, from_number, "pending_task_assign"))

-----------------------------------------------------------------------------
(* tasks/handlers/creation_handlers.py: text-based creation                 *)

TASK_CREATE_TRIGGERS == <<<<"a","d","d"," ","t","a","s","k","s">>, <<"a","d","d"," ","t","a","s","k">>, <<"n","e","w"," ","t","a","s","k">>, <<"n","e","w"," ","t","a","s","k","s">>, <<"n","e","w">>>>
MY_TASKS_TRIGGERS == <<<<"m","y"," ","t","a","s","k","s">>, <<"m","y"," ","t","a","s","k">>, <<"m","y">>>>

\* is_task_creation_trigger(message): the trigger as a str, or None
is_task_creation_trigger(message) ==
    LET message_lower == Lower(Strip(message))
        hits == {i \in 1..Len(TASK_CREATE_TRIGGERS) :
                    StartsWith(message_lower, TASK_CREATE_TRIGGERS[i])}
    IN  IF hits = {} THEN PyNone
        ELSE PyStr(TASK_CREATE_TRIGGERS[CHOOSE i \in hits : \A j \in hits : i <= j])

\* [line.strip() for line in text.split('\n') if line.strip()]
StrippedLines(text) ==
    LET lines == SplitOn(text, "\n")
        stripped == [i \in 1..Len(lines) |-> Strip(lines[i])]
    IN  SelectSeq(stripped, LAMBDA l : Len(l) > 0)

\* get_task_lines(message, trigger)
get_task_lines(message, trigger) ==
    LET message_lower == Lower(message)
        trigger_pos == Find(message_lower, trigger)
        remaining == Strip(SubSeq(message, trigger_pos + Len(trigger), Len(message)))
    IN  IF trigger_pos = 0 THEN << >>
        ELSE IF Len(remaining) = 0 THEN << >>
        ELSE StrippedLines(remaining)

\* the loop of parse_task_line over parts[1:]
RECURSIVE ParseParts(_, _)
ParseParts(parts, acc) ==
    IF Len(parts) = 0 THEN acc
    ELSE LET part == Strip(parts[1])
         IN  ParseParts(Tail(parts),
                IF StartsWith(part, <<"@">>)
                THEN [acc EXCEPT !.assignee_str = PyStr(Tail(part))]
                ELSE [acc EXCEPT !.deadline_str = PyStr(part)])

\* parse_task_line that takes the fields as they are, without strip
parse_task_line_unstripped(line) ==
    LET parts == SplitOn(line, "|")
    IN  ParseParts(Tail(parts),
            [task_name |-> PyStr(parts[1]), deadline_str |-> PyNone, assignee_str |-> PyNone])

\* parse_task_line(line)
parse_task_line(line) ==
    LET split == SplitOn(line, "|")
        parts == [i \in 1..Len(split) |-> Strip(split[i])]
    IN  ParseParts(Tail(parts),
            [task_name |-> PyStr(parts[1]), deadline_str |-> PyNone, assignee_str |-> PyNone])

\* the loop assigning the best match whenever the assignee text matches
\* anybody
RECURSIVE ProcessLines_best_match(_, _, _, _)
ProcessLines_best_match(lines, n, current_user, parsed) ==
    LET Line(r, p, deadline) ==
            LET Assigned(matches) ==
                    IF Len(matches) >= 1
                    THEN [r EXCEPT !.parsed_tasks = Append(@,
                            PendingTask(p.task_name, deadline, Get(matches[1], "name"),
                                        display_of(matches[1])))]
                    ELSE [r EXCEPT !.needs_user_confirmation = Append(@,
                            PyDict(<< <<"task_name", p.task_name>>, <<"deadline", deadline>>,
                                      <<"search_term", p.assignee_str>>,
                                      <<"matches", PyList(<< >>)>> >>))]
            IN  IF ~Truthy(p.task_name) THEN r
                ELSE IF Truthy(p.assignee_str)
                THEN Assigned(fuzzy_search_user(p.assignee_str.val))
                ELSE [r EXCEPT !.parsed_tasks = Append(@,
                        PendingTask(p.task_name, deadline, Get(current_user, "name"),
                                    display_of(current_user)))]
        Parsed(r, p) == Line(r, p, parse_date(p.deadline_str, parsed[n]))
    IN  IF n = 0 THEN [parsed_tasks |-> << >>, needs_user_confirmation |-> << >>]
        ELSE Parsed(ProcessLines_best_match(lines, n - 1, current_user, parsed),
                    parse_task_line(lines[n]))

\* the loop over the task lines shared by handle_task_creation_trigger and
\* handle_pending_task_input; parsed[i] is what the external date parsers
\* answer for line i
RECURSIVE ProcessLines(_, _, _, _)
ProcessLines(lines, n, current_user, parsed) ==
    LET Line(r, p, deadline) ==
            LET Assigned(matches) ==
                    IF Len(matches) = 1
                    THEN [r EXCEPT !.parsed_tasks = Append(@,
                            PendingTask(p.task_name, deadline, Get(matches[1], "name"),
                                        display_of(matches[1])))]
                    ELSE [r EXCEPT !.needs_user_confirmation = Append(@,
                            PyDict(<< <<"task_name", p.task_name>>, <<"deadline", deadline>>,
                                      <<"search_term", p.assignee_str>>,
                                      <<"matches", PyList(IF Len(matches) > 1 THEN matches
                                                          ELSE << >>)>> >>))]
            IN  IF ~Truthy(p.task_name) THEN r
                ELSE IF Truthy(p.assignee_str)
                THEN Assigned(fuzzy_search_user(p.assignee_str.val))
                ELSE [r EXCEPT !.parsed_tasks = Append(@,
                        PendingTask(p.task_name, deadline, Get(current_user, "name"),
                                    display_of(current_user)))]
        Parsed(r, p) == Line(r, p, parse_date(p.deadline_str, parsed[n]))
    IN  IF n = 0 THEN [parsed_tasks |-> << >>, needs_user_confirmation |-> << >>]
        ELSE Parsed(ProcessLines(lines, n - 1, current_user, parsed),
                    parse_task_line(lines[n]))

\* the end of both functions: the ambiguous tasks first, else the preview
StartBatch(c, b, from_number, r, empty_reply) ==
    IF Len(r.needs_user_confirmation) > 0
    THEN Reply(b, << >>,
               handle_ambiguous_users(c, r.needs_user_confirmation[1], from_number,
                    PyList(r.parsed_tasks), PyList(Tail(r.needs_user_confirmation))))
    ELSE IF Len(r.parsed_tasks) > 0
    THEN Reply(b, << >>, show_task_confirmation(c, PyList(r.parsed_tasks), from_number, FALSE))
    ELSE Res(TRUE, c, b, empty_reply)

\* handle_task_creation_trigger(message, from_number, whatsapp_account)
handle_task_creation_trigger(c, b, message, from_number, parsed) ==
    LET Lines(task_lines, current_user) ==
            IF Len(task_lines) = 0
            THEN Res(TRUE, c, b, <<send_reply(from_number, "format_sample", << >>)>>)
            ELSE IF ~Truthy(current_user)
            THEN Res(TRUE, c, b, <<send_reply(from_number, "phone_not_linked", << >>)>>)
            ELSE StartBatch(c, b, from_number,
                            ProcessLines(task_lines, Len(task_lines), current_user, parsed),
                            << >>)
        Triggered(trigger) ==
            IF ~Truthy(trigger) THEN Res(FALSE, c, b, << >>)
            ELSE Lines(get_task_lines(message, trigger.val), get_user_by_phone(from_number))
    IN  Triggered(is_task_creation_trigger(message))

\* is_my_tasks_trigger(message)
is_my_tasks_trigger(message) ==
    \E i \in 1..Len(MY_TASKS_TRIGGERS) : Lower(Strip(message)) = MY_TASKS_TRIGGERS[i]

\* handle_my_tasks_trigger(message, from_number, whatsapp_account)
handle_my_tasks_trigger(c, b, message, from_number) ==
    LET Mine(current_user) ==
            IF ~Truthy(current_user)
            THEN Res(TRUE, c, b, <<send_reply(from_number, "phone_not_linked", << >>)>>)
            ELSE Listed(b, << >>,
                        send_my_tasks(c, b, from_number, Get(current_user, "name").val))
    IN  IF ~is_my_tasks_trigger(message) THEN Res(FALSE, c, b, << >>)
        ELSE Mine(get_user_by_phone(from_number))

-----------------------------------------------------------------------------
(* tasks/handlers/creation_handlers.py: the step-by-step guided flow        *)

s_cancel == <<"c","a","n","c","e","l">>

\* the context handle_menu_add_task and _set_guided_flow_step start from
FreshGuidedFlow(step) ==
    PyDict(<< <<"step", PyStr(step)>>, <<"tasks", PyList(<< >>)>>,
              <<"current", PyDict(<< >>)>> >>)

\* handle_menu_add_task(from_number, whatsapp_account)
handle_menu_add_task(c, b, from_number) ==
    LET current_user == get_user_by_phone(from_number)
    IN  IF ~Truthy(current_user)
        THEN Res(TRUE, c, b, <<send_reply(from_number, "phone_not_linked", << >>)>>)
        ELSE Res(TRUE, set_context(c, from_number, "guided_flow", FreshGuidedFlow("name")), b,
                 <<send_reply(from_number, "step1_task_name", << >>)>>)

\* _finalize_guided_task previewing the finished tasks without the current one
_finalize_guided_task_stale(c, b, from_number, assignee, assignee_display) ==
    LET Finalized(context_data, tasks) ==
            IF ~Truthy(context_data) THEN Res(FALSE, c, b, << >>)
            ELSE Reply(b, << >>,
                       show_task_confirmation(clear_context(c, from_number), tasks,
                                              from_number, TRUE))
        Flow(context_data) ==
            Finalized(context_data, GetOr(context_data, "tasks", PyList(<< >>)))
    IN  Flow(get_context_data(c, from_number, "guided_flow"))

\* _finalize_guided_task(from_number, whatsapp_account, assignee,
\* assignee_display); assignee and assignee_display are str values
_finalize_guided_task(c, b, from_number, assignee, assignee_display) ==
    LET Finalized(context_data, current, tasks) ==
            IF ~Truthy(context_data) THEN Res(FALSE, c, b, << >>)
            ELSE IF ~HasKey(current, "task_name") \/ ~HasKey(current, "deadline")
            THEN Raise(c, b, << >>)     \* KeyError
            ELSE Reply(b, << >>,
                       show_task_confirmation(clear_context(c, from_number),
                            PyList(Append(tasks.val,
                                PendingTask(Get(current, "task_name"),
                                            Get(current, "deadline"),
                                            assignee, assignee_display))),
                            from_number, TRUE))
        Flow(context_data) ==
            Finalized(context_data, GetOr(context_data, "current", PyDict(<< >>)),
                      GetOr(context_data, "tasks", PyList(<< >>)))
    IN  Flow(get_context_data(c, from_number, "guided_flow"))

\* _handle_step_task_name(message, from_number, whatsapp_account, context_data)
_handle_step_task_name(c, b, message, from_number, context_data) ==
    LET task_name == Strip(message)
        context1 == SetKey(SetKey(context_data, "step", PyStr("deadline")), "current",
                           PyDict(<< <<"task_name", PyStr(task_name)>> >>))
    IN  IF Len(task_name) = 0
        THEN Res(TRUE, c, b, <<send_reply(from_number, "enter_valid_task_name", << >>)>>)
        ELSE Res(TRUE, set_context(c, from_number, "guided_flow", context1), b,
                 <<send_interactive_message(from_number, "step2_deadline", <<task_name>>,
                        <<Button(<<"GUIDED_TODAY">>), Button(<<"GUIDED_TOMORROW">>)>>)>>)

\* _handle_step_deadline(message, from_number, whatsapp_account,
\* context_data); context_data is None when a button handler calls it
_handle_step_deadline(c, b, message, from_number, given, parsed) ==
    LET Asked(deadline, context1, c1, current_user) ==
            IF ~HasKey(Get(context1, "current"), "task_name")
            THEN Raise(c1, b, << >>)    \* KeyError while the message is built
            ELSE Res(TRUE, c1, b,
                     <<send_interactive_message(from_number, "step3_assignee",
                            <<Get(Get(context1, "current"), "task_name").val,
                              format_date_display(deadline)>>,
                            <<Button(<<"GUIDED_ASSIGN_ME">>)>>)>>)
        Saved(deadline, context1) ==
            Asked(deadline, context1, set_context(c, from_number, "guided_flow", context1),
                  get_user_by_phone(from_number))
        Parsed(context_data, deadline) ==
            Saved(deadline,
                  SetKey(SetKey(context_data, "step", PyStr("assignee")), "current",
                         SetKey(Get(context_data, "current"), "deadline", str(deadline))))
        Flow(context_data) ==
            IF ~Truthy(context_data) THEN Res(FALSE, c, b, << >>)
            ELSE Parsed(context_data, parse_date(PyStr(message), parsed))
    IN  Flow(IF PyEq(given, PyNone) THEN get_context_data(c, from_number, "guided_flow")
             ELSE given)

\* _handle_step_assignee going back to the name step when nobody matches
_handle_step_assignee_restarts(c, b, message, from_number, context_data) ==
    LET Matched(matches) ==
            IF Len(matches) = 0
            THEN Res(TRUE, set_context(c, from_number, "guided_flow",
                                      SetKey(context_data, "step", PyStr("name"))), b,
                     <<send_reply(from_number, "user_not_found_try_again", <<message>>)>>)
            ELSE IF Len(matches) > 1
            THEN Res(TRUE, c, b,
                     <<send_interactive_message(from_number, "multiple_matches", <<message>>,
                            [i \in 1..Min(3, Len(matches)) |->
                                Button(<<"GUIDED_ASSIGNEE", Get(matches[i], "name").val>>)])>>)
            ELSE _finalize_guided_task(c, b, from_number, Get(matches[1], "name"),
                                       display_of(matches[1]))
    IN  Matched(fuzzy_search_user(message))

\* _handle_step_assignee(message, from_number, whatsapp_account, context_data)
_handle_step_assignee(c, b, message, from_number, context_data) ==
    LET Matched(matches) ==
            IF Len(matches) = 0
            THEN Res(TRUE, c, b,
                     <<send_reply(from_number, "user_not_found_try_again", <<message>>)>>)
            ELSE IF Len(matches) > 1
            THEN Res(TRUE, c, b,
                     <<send_interactive_message(from_number, "multiple_matches", <<message>>,
                            [i \in 1..Min(3, Len(matches)) |->
                                Button(<<"GUIDED_ASSIGNEE", Get(matches[i], "name").val>>)])>>)
            ELSE _finalize_guided_task(c, b, from_number, Get(matches[1], "name"),
                                       display_of(matches[1]))
    IN  Matched(fuzzy_search_user(message))

\* handle_guided_flow_input taking only the lower-case `cancel` as a cancel
handle_guided_flow_input_exact(c, b, message, from_number, parsed) ==
    LET Stepped(context_data, step) ==
            IF ~Truthy(context_data) THEN Res(FALSE, c, b, << >>)
            ELSE IF ~Truthy(step) THEN Res(FALSE, c, b, << >>)
            ELSE IF Strip(message) = s_cancel
            THEN Res(TRUE, clear_context(c, from_number), b,
                     <<send_reply(from_number, "task_creation_cancelled", << >>)>>)
            ELSE IF PyEq(step, PyStr("name"))
            THEN _handle_step_task_name(c, b, message, from_number, context_data)
            ELSE IF PyEq(step, PyStr("deadline"))
            THEN _handle_step_deadline(c, b, message, from_number, context_data, parsed)
            ELSE IF PyEq(step, PyStr("assignee"))
            THEN _handle_step_assignee(c, b, message, from_number, context_data)
            ELSE Res(FALSE, c, b, << >>)
        Flow(context_data) == Stepped(context_data, GetOr(context_data, "step", PyNone))
    IN  Flow(get_context_data(c, from_number, "guided_flow"))

\* handle_guided_flow_input(message, from_number, whatsapp_account)
handle_guided_flow_input(c, b, message, from_number, parsed) ==
    LET Stepped(context_data, step) ==
            IF ~Truthy(context_data) THEN Res(FALSE, c, b, << >>)
            ELSE IF ~Truthy(step) THEN Res(FALSE, c, b, << >>)
            ELSE IF Lower(Strip(message)) = s_cancel
            THEN Res(TRUE, clear_context(c, from_number), b,
                     <<send_reply(from_number, "task_creation_cancelled", << >>)>>)
            ELSE IF PyEq(step, PyStr("name"))
            THEN _handle_step_task_name(c, b, message, from_number, context_data)
            ELSE IF PyEq(step, PyStr("deadline"))
            THEN _handle_step_deadline(c, b, message, from_number, context_data, parsed)
            ELSE IF PyEq(step, PyStr("assignee"))
            THEN _handle_step_assignee(c, b, message, from_number, context_data)
            ELSE Res(FALSE, c, b, << >>)
        Flow(context_data) == Stepped(context_data, GetOr(context_data, "step", PyNone))
    IN  Flow(get_context_data(c, from_number, "guided_flow"))

\* handle_guided_assignee_button(user_name, from_number, whatsapp_account);
\* user_name is "ME" for GUIDED_ASSIGN_ME
handle_guided_assignee_button(c, b, user_name, from_number) ==
    LET Me(current_user) ==
            IF ~Truthy(current_user)
            THEN Res(TRUE, c, b, <<send_reply(from_number, "phone_not_linked", << >>)>>)
            ELSE [_finalize_guided_task(c, b, from_number, Get(current_user, "name"),
                                        display_of(current_user)) EXCEPT !.handled = TRUE]
        Other(user_doc) ==
            IF ~Truthy(user_doc)
            THEN Res(TRUE, c, b, <<send_reply(from_number, "user_not_found", << >>)>>)
            ELSE [_finalize_guided_task(c, b, from_number, PyStr(user_name),
                                        display_of(user_doc)) EXCEPT !.handled = TRUE]
    IN  IF user_name = <<"M","E">> THEN Me(get_user_by_phone(from_number))
        ELSE Other(get_user_doc(user_name))

\* handle_guided_deadline_button(deadline_type, from_number, whatsapp_account)
handle_guided_deadline_button(c, b, deadline_type, from_number) ==
    IF deadline_type \in {"TODAY", "TOMORROW"}
    THEN [_handle_step_deadline(c, b,
                IF deadline_type = "TODAY" THEN s_today ELSE s_tomorrow,
                from_number, PyNone, NoDate)
            EXCEPT !.handled = TRUE]
    ELSE Res(TRUE, c, b, << >>)

\* _set_guided_flow_step(from_number, step): the store after it
_set_guided_flow_step(c, from_number, step) ==
    LET context_data == get_context_data(c, from_number, "guided_flow")
    IN  IF Truthy(context_data)
        THEN set_context(c, from_number, "guided_flow", SetKey(context_data, "step", PyStr(step)))
        ELSE set_context(c, from_number, "guided_flow", FreshGuidedFlow(step))

\* _clear_guided_flow_current(from_number): the store after it
_clear_guided_flow_current(c, from_number) ==
    LET context_data == get_context_data(c, from_number, "guided_flow")
    IN  IF Truthy(context_data)
        THEN set_context(c, from_number, "guided_flow",
                         SetKey(context_data, "current", PyDict(<< >>)))
        ELSE c

\* handle_add_another_task(from_number, whatsapp_account), of
\* confirmation_handlers.py
handle_add_another_task(c, b, from_number) ==
    Res(TRUE,
        _clear_guided_flow_current(_set_guided_flow_step(c, from_number, "name"),
                                   from_number),
        b, <<send_reply(from_number, "add_another_task", << >>)>>)

\* handle_pending_task_input(message, from_number, whatsapp_account)
handle_pending_task_input(c, b, message, from_number, parsed) ==
    LET Legacy(c1, current_user, lines) ==
            IF ~has_context(c, from_number, "task_creation_mode")
            THEN Res(FALSE, c, b, << >>)
            ELSE IF Lower(Strip(message)) = s_cancel
            THEN Res(TRUE, c1, b,
                     <<send_reply(from_number, "task_creation_cancelled", << >>)>>)
            ELSE IF ~Truthy(current_user)
            THEN Res(TRUE, c1, b, <<send_reply(from_number, "phone_not_linked", << >>)>>)
            ELSE IF Len(lines) = 0
            THEN Res(TRUE, c1, b, <<send_reply(from_number, "no_tasks_provided", << >>)>>)
            ELSE StartBatch(c1, b, from_number,
                            ProcessLines(lines, Len(lines), current_user, parsed),
                            <<send_reply(from_number, "no_valid_tasks_found", << >>)>>)
        Guided(guided) ==
            IF guided.handled \/ guided.raised THEN guided
            ELSE Legacy(clear_context(c, from_number), get_user_by_phone(from_number),
                        StrippedLines(message))
    IN  Guided(handle_guided_flow_input(c, b, message, from_number, parsed[1]))

-----------------------------------------------------------------------------
(* tasks/handlers/menu_handlers.py                                          *)

MENU_TRIGGERS == <<<<"m","e","n","u">>, <<"h","e","l","p">>, <<"s","t","a","r","t">>>>
GUIDE_TRIGGER == <<"g","u","i","d","e">>
s_not_started == <<"n","o","t"," ","s","t","a","r","t","e","d">>
s_in_progress == <<"i","n"," ","p","r","o","g","r","e","s","s">>
s_on_hold == <<"o","n"," ","h","o","l","d">>
s_overdue == <<"o","v","e","r","d","u","e">>
s_change == <<"c","h","a","n","g","e">>

\* message_lower in STATUS_FILTER_TRIGGERS, and the status it maps to
IsStatusFilter(message_lower) == message_lower \in {s_not_started, s_in_progress, s_on_hold}
STATUS_FILTER_TRIGGERS(message_lower) ==
    IF message_lower = s_not_started THEN "Not Started"
    ELSE IF message_lower = s_in_progress THEN "In Progress"
    ELSE "On Hold"

SPECIAL_FILTER_TRIGGERS == {s_today, s_overdue, s_change}

\* handle_menu_trigger(message, from_number, whatsapp_account)
handle_menu_trigger(c, b, message, from_number) ==
    IF ~(\E i \in 1..Len(MENU_TRIGGERS) : Lower(Strip(message)) = MENU_TRIGGERS[i])
    THEN Res(FALSE, c, b, << >>)
    ELSE Res(TRUE, c, b,
             <<send_interactive_message(from_number, "welcome_menu", << >>,
                    <<Button(<<"MENU_ADD_TASK">>), Button(<<"MENU_MY_TASKS">>)>>)>>)

\* the loop shared by send_filtered_tasks and send_today_tasks: every open
\* row is counted; Listed(task) rows are listed
RECURSIVE CountAndFilter(_, _, _)
CountAndFilter(rows, today_date, listed) ==
    IF Len(rows) = 0
    THEN [task_list |-> << >>, not_started |-> 0, in_progress |-> 0, overdue |-> 0,
          on_hold |-> 0]
    ELSE LET task == rows[Len(rows)]
             r == CountAndFilter(SubSeq(rows, 1, Len(rows) - 1), today_date, listed)
             is_overdue == Truthy(task.deadline) /\ getdate(task.deadline).val < today_date.val
             r1 == IF task.status = "On Hold" THEN [r EXCEPT !.on_hold = @ + 1]
                   ELSE IF is_overdue THEN [r EXCEPT !.overdue = @ + 1]
                   ELSE IF task.status = "Not Started" THEN [r EXCEPT !.not_started = @ + 1]
                   ELSE IF task.status = "In Progress" THEN [r EXCEPT !.in_progress = @ + 1]
                   ELSE r
         IN  IF listed[Len(rows)]
             THEN [r1 EXCEPT !.task_list = Append(@,
                        PyDict(<< <<"task_id", PyStr(task.name)>>,
                                  <<"task_title", PyStr(task.task_name)>>,
                                  <<"days_text", PyStr(get_days_text(task.deadline, today_date))>>,
                                  <<"status", PyStr(task.status)>>,
                                  <<"deadline", task.deadline>> >>))]
             ELSE r1

\* list.sort(key=...): stable, keys[i] being the integer key of l[i]
RECURSIVE SortByInt(_, _)
SortByInt(l, keys) ==
    IF Len(l) = 0 THEN << >>
    ELSE LET first == CHOOSE i \in 1..Len(l) :
                        /\ \A j \in 1..Len(l) : keys[i] <= keys[j]
                        /\ \A j \in 1..(i - 1) : keys[i] < keys[j]
             Drop(q) == [k \in 1..(Len(q) - 1) |-> IF k < first THEN q[k] ELSE q[k + 1]]
         IN  <<l[first]>> \o SortByInt(Drop(l), Drop(keys))

\* send_filtered_tasks(to_number, assigned_to, status, whatsapp_account)
send_filtered_tasks(c, b, to_number, assigned_to, status) ==
    LET ByDeadline(t) == IF ~Truthy(Get(t, "deadline")) THEN 99999999
                         ELSE getdate(Get(t, "deadline")).val
        exclude_status == IF status = "Not Started" THEN PyStr("not_started")
                          ELSE IF status = "In Progress" THEN PyStr("in_progress")
                          ELSE IF status = "On Hold" THEN PyStr("on_hold")
                          ELSE PyNone
        Filtered(r) ==
            IF Len(r.task_list) = 0
            THEN [ctx |-> c,
                  sent |-> <<send_reply(to_number, "no_tasks_with_status", <<status>>)>>]
            ELSE AsSent(send_task_list_with_numbers(c, to_number,
                            SortByInt(r.task_list,
                                      [i \in 1..Len(r.task_list) |-> ByDeadline(r.task_list[i])]),
                            <<"T","a","s","k","s"," ","-"," ">> \o <<status>>, StatusCounts(r), exclude_status))
        Counted(all_tasks) ==
            Filtered(CountAndFilter(all_tasks, getdate(today),
                        [i \in 1..Len(all_tasks) |-> all_tasks[i].status = status]))
    IN  Counted(OpenTasksOf(b, assigned_to))

\* send_today_tasks(to_number, assigned_to, whatsapp_account)
send_today_tasks(c, b, to_number, assigned_to) ==
    LET ByStatus(t) == IF Get(t, "status").val = "In Progress" THEN 0
                       ELSE IF Get(t, "status").val = "Not Started" THEN 1 ELSE 2
        Filtered(r) ==
            IF Len(r.task_list) = 0
            THEN [ctx |-> c, sent |-> <<send_reply(to_number, "no_tasks_due_today", << >>)>>]
            ELSE AsSent(send_task_list_with_numbers(c, to_number,
                            SortByInt(r.task_list,
                                      [i \in 1..Len(r.task_list) |-> ByStatus(r.task_list[i])]),
                            <<"T","a","s","k","s"," ","D","u","e"," ","T","o","d","a","y">>, StatusCounts(r), PyNone))
        Counted(all_tasks) ==
            Filtered(CountAndFilter(all_tasks, getdate(today),
                        [i \in 1..Len(all_tasks) |->
                            /\ Truthy(all_tasks[i].deadline)
                            /\ getdate(all_tasks[i].deadline) = getdate(today)
                            /\ all_tasks[i].status # "On Hold"]))
    IN  Counted(OpenTasksOf(b, assigned_to))

\* handle_change_deadline_for_task(from_number, task_id, whatsapp_account)
handle_change_deadline_for_task(c, b, from_number, task_id) ==
    IF ~HasTask(b, task_id)
    THEN Res(TRUE, c, b, <<send_reply(from_number, "task_not_found", << >>)>>)
    ELSE LET task_data == TaskRow(b, task_id)
             deadline_display == IF Truthy(task_data.deadline)
                                 THEN format_date_display(task_data.deadline) ELSE "Not set"
         IN  Res(TRUE, c, b,
                 <<send_interactive_message(from_number, "select_new_deadline",
                        <<task_data.task_name, deadline_display>>,
                        <<Button(<<"DEADLINE_TODAY">>), Button(<<"DEADLINE_TOMORROW">>)>>)>>)

\* handle_status_filter_trigger(message, from_number, whatsapp_account); the
\* `overdue` branch calls send_overdue_review_flow, kept as its reply only
handle_status_filter_trigger(c, b, message, from_number) ==
    LET Change(context) ==
            IF Truthy(IF Truthy(context) THEN GetOr(context, "task_id", PyNone) ELSE PyNone)
            THEN handle_change_deadline_for_task(c, b, from_number,
                                                 Get(context, "task_id").val)
            ELSE Res(TRUE, c, b, <<send_reply(from_number, "no_task_selected", << >>)>>)
        Filter(message_lower, current_user) ==
            IF message_lower = GUIDE_TRIGGER
            THEN Res(TRUE, c, b, <<send_reply(from_number, "guide", << >>)>>)
            ELSE IF ~Truthy(current_user)
            THEN IF IsStatusFilter(message_lower) \/ message_lower \in SPECIAL_FILTER_TRIGGERS
                 THEN Res(TRUE, c, b, <<send_reply(from_number, "phone_not_linked", << >>)>>)
                 ELSE Res(FALSE, c, b, << >>)
            ELSE IF IsStatusFilter(message_lower)
            THEN Listed(b, << >>,
                        send_filtered_tasks(c, b, from_number, Get(current_user, "name").val,
                                            STATUS_FILTER_TRIGGERS(message_lower)))
            ELSE IF message_lower = s_today
            THEN Listed(b, << >>,
                        send_today_tasks(c, b, from_number, Get(current_user, "name").val))
            ELSE IF message_lower = s_overdue
            THEN Res(TRUE, c, b, <<send_reply(from_number, "overdue_review", << >>)>>)
            ELSE IF message_lower = s_change
            THEN Change(get_context_data(c, from_number, "deadline_edit_task"))
            ELSE Res(FALSE, c, b, << >>)
    IN  Filter(Lower(Strip(message)), get_user_by_phone(from_number))

-----------------------------------------------------------------------------
(* The conversation router (spec section 4.2).  A TEXT event walks the      *)
(* handlers in the order of precedence and stops at the first one that      *)
(* reports it handled; a BUTTON event is dispatched on its id.              *)

MaxBoard == 2

\* the phone whose conversation is explored
Senders == {Phone1}

\* the users a button id can name
ButtonUsers == {u_alice.name, u_alan.name}

TextEvent(from_number, message) ==
    [from |-> from_number, content_type |-> "text", message |-> message, fail_at |-> 0]

\* a button event; message holds the ':'-separated parts of the id, fail_at
\* the position of the insert that throws while it is handled (0: none)
ButtonEvent(from_number, id, fail_at) ==
    [from |-> from_number, content_type |-> "button", message |-> id, fail_at |-> fail_at]

NoEvent == [from |-> Phone1, content_type |-> "none", message |-> << >>, fail_at |-> 0]

\* the handler's effects become the state
Deliver(handler, r) ==
    /\ ctx' = r.ctx
    /\ sprint_board' = r.board
    /\ sent' = r.sent
    /\ handledBy' = handler
    /\ raised' = r.raised

\* the handler passed the event on: not handled, nothing raised
Declined(r) == ~r.handled /\ ~r.raised

\* the answers of the external date parsers, one for each line of a message
ParserAnswers(message) == [1..Len(SplitOn(message, "\n")) -> DateParserOutcomes]

\* steps 1 to 9 of the text precedence: the result of the handler at that
\* step for this event in the current state
TextStep(step, message, from_number, parsed) ==
    CASE step = 1 -> handle_menu_trigger(ctx, sprint_board, message, from_number)
      [] step = 2 -> handle_status_filter_trigger(ctx, sprint_board, message, from_number)
      [] step = 3 -> handle_deadline_number_selection(ctx, sprint_board, message, from_number)
      [] step = 4 -> handle_deadline_input(ctx, sprint_board, message, from_number, parsed[1])
      [] step = 5 -> handle_more_command(ctx, sprint_board, message, from_number)
      [] step = 6 -> handle_number_selection(ctx, sprint_board, message, from_number)
      [] step = 7 -> handle_pending_task_input(ctx, sprint_board, message, from_number, parsed)
      [] step = 8 -> handle_my_tasks_trigger(ctx, sprint_board, message, from_number)
      [] step = 9 -> handle_task_creation_trigger(ctx, sprint_board, message, from_number,
                                                  parsed)

TextHandlers ==
    <<"handle_menu_trigger", "handle_status_filter_trigger",
      "handle_deadline_number_selection", "handle_deadline_input", "handle_more_command",
      "handle_number_selection", "handle_pending_task_input", "handle_my_tasks_trigger",
      "handle_task_creation_trigger", "none">>

\* the first step from `step` on whose handler does not decline the event,
\* with that handler's result; step 10 (ignored, no reply) when every
\* handler declines
RECURSIVE Route(_, _, _, _)
Route(step, message, from_number, parsed) ==
    LET Pass(r) == IF Declined(r) THEN Route(step + 1, message, from_number, parsed)
                   ELSE [step |-> step, r |-> r]
    IN  IF step = 10 THEN [step |-> 10, r |-> Res(FALSE, ctx, sprint_board, << >>)]
        ELSE Pass(TextStep(step, message, from_number, parsed))

\* a TEXT event: the first handler in the order of precedence that does
\* not decline the text consumes it
OnText(texts) ==
    \E from_number \in Senders, message \in texts :
        \E parsed \in ParserAnswers(message) :
            LET Take(routed) == Deliver(TextHandlers[routed.step], routed.r)
            IN  /\ lastEvent' = TextEvent(from_number, message)
                /\ Take(Route(1, message, from_number, parsed))

\* MENU_MY_TASKS: the list of the sender's open tasks
handle_menu_my_tasks(c, b, from_number) ==
    handle_my_tasks_trigger(c, b, MY_TASKS_TRIGGERS[1], from_number)

\* the button dispatch table
OnMenuAddTask ==
    \E from_number \in Senders :
        /\ lastEvent' = ButtonEvent(from_number, <<"MENU_ADD_TASK">>, 0)
        /\ Deliver("handle_menu_add_task",
                   handle_menu_add_task(ctx, sprint_board, from_number))

OnMenuMyTasks ==
    \E from_number \in Senders :
        /\ lastEvent' = ButtonEvent(from_number, <<"MENU_MY_TASKS">>, 0)
        /\ Deliver("handle_menu_my_tasks",
                   handle_menu_my_tasks(ctx, sprint_board, from_number))

OnSelectTask ==
    \E from_number \in Senders, n \in 1..MaxBoard :
        /\ lastEvent' = ButtonEvent(from_number, <<"SELECT_TASK", TaskId(n)>>, 0)
        /\ Deliver("handle_task_selection",
                   handle_task_selection(ctx, sprint_board, TaskId(n), from_number))

OnStatus ==
    \E from_number \in Senders, n \in 1..MaxBoard, status \in Statuses :
        /\ lastEvent' = ButtonEvent(from_number, <<"STATUS", status, TaskId(n)>>, 0)
        /\ Deliver("handle_status_update",
                   handle_status_update(ctx, sprint_board, TaskId(n), status, from_number))

\* the number of tasks awaiting the sender's confirmation
PendingCount(from_number) ==
    LET Count(tasks) == IF Truthy(tasks) THEN Len(tasks.val) ELSE 0
    IN  Count(get_context_data(ctx, from_number, "pending_tasks"))

\* CONFIRM_TASKS; the insert of the fail_at-th task of the batch throws
\* (0: none does)
OnConfirmTasks ==
    \E from_number \in Senders, fail_at \in 0..MaxBoard :
        /\ fail_at <= PendingCount(from_number)
        /\ Len(sprint_board) + PendingCount(from_number) <= MaxBoard
        /\ lastEvent' = ButtonEvent(from_number, <<"CONFIRM_TASKS">>, fail_at)
        /\ Deliver("handle_task_confirmation",
                   handle_task_confirmation(ctx, sprint_board, "CONFIRM_TASKS",
                                            from_number, fail_at))

OnCancelTasks ==
    \E from_number \in Senders :
        /\ lastEvent' = ButtonEvent(from_number, <<"CANCEL_TASKS">>, 0)
        /\ Deliver("handle_task_confirmation",
                   handle_task_confirmation(ctx, sprint_board, "CANCEL_TASKS",
                                            from_number, 0))

OnChangeDeadline ==
    \E from_number \in Senders :
        /\ lastEvent' = ButtonEvent(from_number, <<"CHANGE_DEADLINE">>, 0)
        /\ Deliver("handle_change_deadline",
                   handle_change_deadline(ctx, sprint_board, from_number))

OnAddAnotherTask ==
    \E from_number \in Senders :
        /\ lastEvent' = ButtonEvent(from_number, <<"ADD_ANOTHER_TASK">>, 0)
        /\ Deliver("handle_add_another_task",
                   handle_add_another_task(ctx, sprint_board, from_number))

OnDeadlineButton ==
    \E from_number \in Senders, deadline_type \in {"TODAY", "TOMORROW"} :
        /\ lastEvent' = ButtonEvent(from_number, <<"DEADLINE", deadline_type>>, 0)
        /\ Deliver("handle_deadline_button",
                   handle_deadline_button(ctx, sprint_board, deadline_type, from_number))

OnGuidedDeadlineButton ==
    \E from_number \in Senders, deadline_type \in {"TODAY", "TOMORROW"} :
        /\ lastEvent' = ButtonEvent(from_number, <<"GUIDED", deadline_type>>, 0)
        /\ Deliver("handle_guided_deadline_button",
                   handle_guided_deadline_button(ctx, sprint_board, deadline_type,
                                                 from_number))

\* GUIDED_ASSIGN_ME
OnGuidedAssignMe ==
    \E from_number \in Senders :
        /\ lastEvent' = ButtonEvent(from_number, <<"GUIDED_ASSIGN_ME">>, 0)
        /\ Deliver("handle_guided_assignee_button",
                   handle_guided_assignee_button(ctx, sprint_board, <<"M","E">>,
                                                 from_number))

\* GUIDED_ASSIGNEE:<user>
OnGuidedAssignee ==
    \E from_number \in Senders, user_name \in ButtonUsers :
        /\ lastEvent' = ButtonEvent(from_number, <<"GUIDED_ASSIGNEE", user_name>>, 0)
        /\ Deliver("handle_guided_assignee_button",
                   handle_guided_assignee_button(ctx, sprint_board, user_name, from_number))

OnAssignUser ==
    \E from_number \in Senders, user_name \in ButtonUsers :
        /\ lastEvent' = ButtonEvent(from_number, <<"ASSIGN_USER", user_name>>, 0)
        /\ Deliver("handle_user_selection",
                   handle_user_selection(ctx, sprint_board, user_name, from_number))

OnLoadMoreTasks ==
    \E from_number \in Senders :
        /\ lastEvent' = ButtonEvent(from_number, <<"LOAD_MORE_TASKS">>, 0)
        /\ Deliver("handle_load_more_button",
                   handle_load_more_button(ctx, sprint_board, from_number))

Init ==
    /\ ctx = [p \in Phones |-> NoDoc]
    /\ sprint_board = << >>
    /\ sent = << >>
    /\ lastEvent = NoEvent
    /\ handledBy = "none"
    /\ raised = FALSE

-----------------------------------------------------------------------------
(* Spec: the guided creation flow up to the preview of its batch            *)

t_fix_bug == <<"F","i","x"," ","b","u","g">>
t_john == <<"J","o","h","n">>

GuidedTexts == {t_fix_bug, s_tomorrow, t_john, s_cancel}

Next ==
    \/ OnText(GuidedTexts)
    \/ OnMenuAddTask
    \/ OnGuidedDeadlineButton
    \/ OnGuidedAssignMe
    \/ OnAddAnotherTask
    \/ OnChangeDeadline
    \/ OnDeadlineButton
    \/ OnCancelTasks

Spec == Init /\ [][Next]_vars

\* the guided context d stands at `step` with no finished task and holds
\* `current` as the task being entered
GuidedIs(d, step, current) ==
    /\ d.py = "dict"
    /\ Get(d, "step") = PyStr(step)
    /\ Get(d, "tasks") = PyList(<< >>)
    /\ Get(d, "current") = current

FixBugNamed == PyDict(<< <<"task_name", PyStr(t_fix_bug)>> >>)

FixBugDated ==
    PyDict(<< <<"task_name", PyStr(t_fix_bug)>>,
              <<"deadline", PyStr(IsoText(Today + 1))>> >>)

\* the batch of one task "Fix bug", due tomorrow, assigned to `user`
FixBugBatch(user) ==
    PyList(<<PendingTask(PyStr(t_fix_bug), PyStr(IsoText(Today + 1)),
                         Get(user, "name"), display_of(user))>>)

\* the text of `event` names exactly one user
NamesOneUser(event) ==
    event.content_type = "text" /\ Len(fuzzy_search_user(event.message)) = 1

C1_NameStep(u) ==
    (/\ GuidedIs(get_context_data(ctx, u, "guided_flow"), "name", PyDict(<< >>))
     /\ lastEvent' = TextEvent(u, t_fix_bug))
    => GuidedIs(get_context_data(ctx', u, "guided_flow"), "deadline", FixBugNamed)

C1_DeadlineStep(u) ==
    (/\ GuidedIs(get_context_data(ctx, u, "guided_flow"), "deadline", FixBugNamed)
     /\ lastEvent' = TextEvent(u, s_tomorrow))
    => GuidedIs(get_context_data(ctx', u, "guided_flow"), "assignee", FixBugDated)

C1_AssigneeStep(u) ==
    (/\ GuidedIs(get_context_data(ctx, u, "guided_flow"), "assignee", FixBugDated)
     /\ lastEvent'.from = u
     /\ NamesOneUser(lastEvent'))
    => /\ get_context_data(ctx', u, "pending_tasks")
            = FixBugBatch(fuzzy_search_user(lastEvent'.message)[1])
       /\ ~has_context(ctx', u, "guided_flow")

\* C1: from a fresh guided flow (step name, no tasks) the text "Fix bug"
\* moves the flow to the deadline step holding that name, then "tomorrow"
\* moves it to the assignee step holding the deadline today+1, then a text
\* that names exactly one user leaves a pending_tasks batch of exactly that
\* one task with the matched user as assignee, and no guided_flow context.
C1_GuidedFlowBatch ==
    [][\A u \in Senders : C1_NameStep(u) /\ C1_DeadlineStep(u) /\ C1_AssigneeStep(u)]_vars

\* the three texts were sent in turn and the preview of the batch is pending
C1_Witness ==
    /\ lastEvent = TextEvent(Phone1, t_john)
    /\ handledBy = "handle_pending_task_input"
    /\ get_context_data(ctx, Phone1, "pending_tasks") = FixBugBatch(get_user_doc(u_john.name))
    /\ ~has_context(ctx, Phone1, "guided_flow")

-----------------------------------------------------------------------------
(* SpecQuick: quick-create batches, the chain of ambiguous assignees and    *)
(* the confirmation of the batch                                            *)

\* two tasks whose assignee text matches two users each
q_two_ambiguous == <<"n","e","w"," ","A","|","@","a","l","\n","B","|","@","a","l">>
\* the second task names nobody
q_unknown_second == <<"n","e","w"," ","A","|","@","a","l","\n","B","|","@","z","z">>
\* the first task is the sender's, the second names nobody
q_unknown_after_own == <<"n","e","w"," ","A","\n","B","|","@","z","z">>
\* one task of the sender
q_own == <<"n","e","w"," ","C">>

QuickTexts == {q_two_ambiguous, q_unknown_second, q_unknown_after_own, q_own}

NextQuick ==
    \/ OnText(QuickTexts)
    \/ OnAssignUser
    \/ OnConfirmTasks
    \/ OnCancelTasks

SpecQuick == Init /\ [][NextQuick]_vars

\* the task of the chain's head as resolved to user_name
Resolved(task_info, user_name) ==
    PendingTask(Get(task_info, "task_name"), Get(task_info, "deadline"), PyStr(user_name),
                display_of(get_user_doc(user_name)))

\* the number of candidates of a queued task
Candidates(task_info) == Len(Get(task_info, "matches").val)

\* `event` is the button ASSIGN_USER:<user_name> pressed by u
IsAssignUser(event, u, user_name) ==
    event = ButtonEvent(u, <<"ASSIGN_USER", user_name>>, 0)

\* d is the context of a chain whose head has two candidates
ChainOfTwo(d) == d.py = "dict" /\ Candidates(Get(d, "task_info")) = 2

\* after the selection the chain d stands at its next task, with the
\* resolved task among the confirmed ones; or, the queue being empty, the
\* confirmed tasks are the pending batch
C3_Selected(d, c, s, u, user_name) ==
    LET confirmed1 == PyList(Append(Get(d, "confirmed_tasks").val,
                                    Resolved(Get(d, "task_info"), user_name)))
        remaining == Get(d, "remaining_ambiguous").val
        Asked(d1, next) ==
            /\ d1.py = "dict"
            /\ Get(Get(d1, "task_info"), "task_name") = Get(next, "task_name")
            /\ Get(d1, "confirmed_tasks") = confirmed1
            /\ Get(d1, "remaining_ambiguous") = PyList(Tail(remaining))
            /\ Len(s) = 1 /\ s[1].text = "did_you_mean"
            /\ s[1].args = <<Get(next, "search_term").val, Get(next, "task_name").val>>
    IN  IF Len(remaining) = 0
        THEN get_context_data(c, u, "pending_tasks") = confirmed1
        ELSE Candidates(remaining[1]) = 2
             => Asked(get_context_data(c, u, "pending_task_assign"), remaining[1])

\* C3: in a chain of ambiguous tasks with two candidates each, a selection
\* for the task at the head presents the next task of the queue, never the
\* same task again, and keeps the resolved task with the chosen assignee;
\* the selection for the last task hands the batch of all resolved tasks,
\* each with the assignee chosen for it, to the confirmation.
C3_AmbiguousChain ==
    [][\A u \in Senders, user_name \in ButtonUsers :
          (/\ ChainOfTwo(get_context_data(ctx, u, "pending_task_assign"))
           /\ IsAssignUser(lastEvent', u, user_name))
          => C3_Selected(get_context_data(ctx, u, "pending_task_assign"),
                         ctx', sent', u, user_name)]_vars

\* both tasks of q_two_ambiguous were resolved, to different users
C3_Witness ==
    /\ IsAssignUser(lastEvent, Phone1, u_alan.name)
    /\ get_context_data(ctx, Phone1, "pending_tasks")
        = PyList(<<PendingTask(PyStr(<<"A">>), PyStr(IsoText(Today)), PyStr(u_alice.name),
                               PyStr(u_alice.full_name)),
                   PendingTask(PyStr(<<"B">>), PyStr(IsoText(Today)), PyStr(u_alan.name),
                               PyStr(u_alan.full_name))>>)

\* C4: when the task at the head of the queue has no candidate, only that
\* task is dropped: after a selection that leaves such a head, the tasks
\* confirmed so far (the one just resolved included) and the rest of the
\* queue are kept, so either the next queued task is presented with them or,
\* the queue being empty, they are the pending batch; and a quick-create
\* whose only unmatched task follows a task of the sender previews that task.
C4_UnmatchedHeadOnlyDropped ==
    [][\A u \in Senders :
        /\ \A user_name \in ButtonUsers :
            LET d == get_context_data(ctx, u, "pending_task_assign")
                remaining == Get(d, "remaining_ambiguous").val
                confirmed1 == PyList(Append(Get(d, "confirmed_tasks").val,
                                            Resolved(Get(d, "task_info"), user_name)))
                d1 == get_context_data(ctx', u, "pending_task_assign")
            IN  (/\ d.py = "dict"
                 /\ Len(remaining) > 0
                 /\ Candidates(remaining[1]) = 0
                 /\ IsAssignUser(lastEvent', u, user_name))
                => IF Len(remaining) = 1
                   THEN get_context_data(ctx', u, "pending_tasks") = confirmed1
                   ELSE /\ d1.py = "dict"
                        /\ Get(d1, "confirmed_tasks") = confirmed1
                        /\ Get(d1, "remaining_ambiguous") = PyList(Tail(Tail(remaining)))
        /\ lastEvent' = TextEvent(u, q_unknown_after_own)
           => get_context_data(ctx', u, "pending_tasks")
                = PyList(<<PendingTask(PyStr(<<"A">>), PyStr(IsoText(Today)),
                                       Get(get_user_by_phone(u), "name"),
                                       display_of(get_user_by_phone(u)))>>)]_vars

\* the batch that CONFIRM_TASKS of u would create
PendingBatch(c, u) == get_context_data(c, u, "pending_tasks")

\* `event` is the button CONFIRM_TASKS pressed by u, the fail_at-th insert
\* throwing (0: none)
IsConfirm(event, u, fail_at) == event = ButtonEvent(u, <<"CONFIRM_TASKS">>, fail_at)

\* rows Len(b)+1.. of b1 are the tasks of the batch, in order, not started
CreatedFrom(b, b1, tasks) ==
    /\ Len(b1) = Len(b) + Len(tasks)
    /\ SubSeq(b1, 1, Len(b)) = b
    /\ \A i \in 1..Len(tasks) :
        /\ b1[Len(b) + i].status = "Not Started"
        /\ b1[Len(b) + i].task_name = Get(tasks[i], "task_name").val
        /\ b1[Len(b) + i].assigned_to = Get(tasks[i], "assignee").val

\* C5: when CONFIRM_TASKS is handled with a pending batch of N tasks and no
\* creation fails, exactly N Sprint Board records are created, one for each
\* task of the batch and each with status "Not Started", and afterwards the
\* user has no pending_tasks context.
C5_ConfirmCreatesBatch ==
    [][\A u \in Senders :
          (Truthy(PendingBatch(ctx, u)) /\ IsConfirm(lastEvent', u, 0))
          => /\ CreatedFrom(sprint_board, sprint_board', PendingBatch(ctx, u).val)
             /\ ~has_context(ctx', u, "pending_tasks")]_vars

\* a batch of two tasks was confirmed and created
C5_Witness ==
    /\ IsConfirm(lastEvent, Phone1, 0)
    /\ Len(sprint_board) = 2
    /\ sprint_board[1].task_name = <<"A">> /\ sprint_board[2].task_name = <<"B">>
    /\ \A i \in 1..2 : sprint_board[i].status = "Not Started"
    /\ ~has_context(ctx, Phone1, "pending_tasks")

\* C6: when CONFIRM_TASKS is handled and the creation of the k-th pending
\* task throws, the user is sent the failure reply and the context of the
\* user after the event is the context before it: type pending_tasks, the
\* same batch.
C6_FailedConfirmKeepsContext ==
    [][\A u \in Senders, k \in 1..MaxBoard :
          (Truthy(PendingBatch(ctx, u)) /\ IsConfirm(lastEvent', u, k))
          => /\ sent' = <<send_reply(u, "error_creating_tasks", << >>)>>
             /\ ctx'[u] = ctx[u]
             /\ has_context(ctx', u, "pending_tasks")
             /\ PendingBatch(ctx', u) = PendingBatch(ctx, u)]_vars

\* the insert of the second task of a batch of two threw
C6_Witness ==
    /\ IsConfirm(lastEvent, Phone1, 2)
    /\ Len(sprint_board) = 1
    /\ Len(PendingBatch(ctx, Phone1).val) = 2
    /\ sent = <<send_reply(Phone1, "error_creating_tasks", << >>)>>

-----------------------------------------------------------------------------
(* SpecEdit: the deadline of a task of a pending batch is changed           *)

\* two tasks of the sender
e_two_own == <<"n","e","w"," ","A","\n","B">>
t_one == <<"1">>
t_two == <<"2">>
t_three == <<"3">>
\* a date in words that are no keyword of parse_date
t_friday == <<"f","r","i","d","a","y">>

EditTexts == {e_two_own, t_one, t_two, t_three, s_tomorrow, t_friday}

NextEdit ==
    \/ OnText(EditTexts)
    \/ OnChangeDeadline
    \/ OnDeadlineButton
    \/ OnCancelTasks

SpecEdit == Init /\ [][NextEdit]_vars

\* d is a deadline_edit context in the given mode
EditMode(d, mode) == d.py = "dict" /\ PyEq(GetOr(d, "mode", PyNone), PyStr(mode))

\* C2: a text "2" from a user whose deadline_edit context is in the mode
\* "selecting" is consumed by handle_deadline_number_selection, which enters
\* the editing mode for the second task of the batch or reports an invalid
\* number; handle_number_selection never consumes it.
C2_DeadlineSelectionFirst ==
    [][\A u \in Senders :
          (/\ EditMode(get_context_data(ctx, u, "deadline_edit"), "selecting")
           /\ lastEvent' = TextEvent(u, t_two))
          => /\ handledBy' = "handle_deadline_number_selection"
             /\ handledBy' # "handle_number_selection"
             /\ \/ /\ EditMode(get_context_data(ctx', u, "deadline_edit"), "editing")
                   /\ Get(get_context_data(ctx', u, "deadline_edit"), "index") = PyInt(1)
                   /\ sent'[1].text = "enter_new_deadline"
                \/ /\ sent'[1].text = "invalid_number"
                   /\ ctx' = ctx]_vars

\* "2" was sent while the batch of two was in the selecting mode
C2_Witness ==
    /\ lastEvent = TextEvent(Phone1, t_two)
    /\ handledBy = "handle_deadline_number_selection"
    /\ EditMode(get_context_data(ctx, Phone1, "deadline_edit"), "editing")
    /\ Get(get_context_data(ctx, Phone1, "deadline_edit"), "index") = PyInt(1)

-----------------------------------------------------------------------------
(* SpecList: the paginated list of the sender's tasks                       *)

MaxListLen == 23
MaxPage == 3

\* a Sprint Board of n open tasks of the sender, due today and tomorrow in
\* turn
RECURSIVE ListBoard(_)
ListBoard(n) ==
    IF n = 0 THEN << >>
    ELSE InsertTask(ListBoard(n - 1), <<"T">> \o Digits(n), u_john.name,
                    PyDate(Today + (n % 2)), u_john.name)

\* the list lengths explored: one page, a full page, one task more, two full
\* pages and one more, and the longest list
ListSizes == {1, 9, 10, 19, MaxListLen}

InitList ==
    /\ ctx = [p \in Phones |-> NoDoc]
    /\ sprint_board \in {ListBoard(n) : n \in ListSizes}
    /\ sent = << >>
    /\ lastEvent = NoEvent
    /\ handledBy = "none"
    /\ raised = FALSE

\* the numbers a user replies with
NumberReplies == {Digits(k) : k \in {1, 9, 10, 15, MaxListLen, MaxListLen + 1}}

ListTexts == {MY_TASKS_TRIGGERS[1], s_more} \cup NumberReplies

\* the page stored for u can still advance within the pages explored
PageRoom(u) ==
    LET Room(d) == ~HasTaskList(d) \/ GetOr(d, "page", PyInt(0)).val < MaxPage
    IN  Room(get_context_data(ctx, u, "task_list_context"))

\* the texts sent in this state: none while a task picked from the list
\* awaits its new status or deadline (any text would then be read as its
\* deadline), and no `more` past the pages explored
ListInputs ==
    IF has_context(ctx, Phone1, "deadline_edit_task") THEN {}
    ELSE IF PageRoom(Phone1) THEN ListTexts
    ELSE ListTexts \ {s_more}

OnListText == OnText(ListInputs)

OnLoadMore == PageRoom(Phone1) /\ OnLoadMoreTasks

NextList ==
    \/ OnListText
    \/ OnLoadMore
    \/ OnMenuMyTasks

SpecList == InitList /\ [][NextList]_vars

\* the buttons of page p of the list l: the tasks at the ordinals 9p+1 to
\* min(9p+9, N), then Load More when tasks remain after them
PageButtons(l, p) ==
    LET last == Min(9 * p + 9, Len(l))
        tasks == [k \in 1..(IF last > 9 * p THEN last - 9 * p ELSE 0) |->
                    [id |-> <<"SELECT_TASK", Get(l[9 * p + k], "task_id").val>>,
                     n |-> 9 * p + k]]
    IN  IF 9 * p + 9 < Len(l) THEN Append(tasks, Button(<<"LOAD_MORE_TASKS">>)) ELSE tasks

\* every task list message in s shows the stored page of the list stored in
\* c for u, with the buttons of that page
C7_PageShown(c, s, u) ==
    \A i \in 1..Len(s) :
        s[i].text = "task_list" /\ s[i].to = u
        => LET d == get_context_data(c, u, "task_list_context")
           IN  /\ HasTaskList(d)
               /\ s[i].args[2] = Get(d, "page").val
               /\ s[i].args[3] = Len(Get(d, "tasks").val)
               /\ s[i].buttons = PageButtons(Get(d, "tasks").val, s[i].args[2])

\* `more`, typed or pressed, advances the stored page of u by one
C7_MoreAdvances(u) ==
    LET d == get_context_data(ctx, u, "task_list_context")
        d1 == get_context_data(ctx', u, "task_list_context")
    IN  (/\ HasTaskList(d)
         /\ lastEvent' \in {TextEvent(u, s_more), ButtonEvent(u, <<"LOAD_MORE_TASKS">>, 0)})
        => /\ HasTaskList(d1)
           /\ Get(d1, "tasks") = Get(d, "tasks")
           /\ Get(d1, "page").val = GetOr(d, "page", PyInt(0)).val + 1

\* a numeric reply k within the list selects the task at ordinal k
C7_NumberSelects(u) ==
    LET d == get_context_data(ctx, u, "task_list_context")
    IN  \A k \in 1..(MaxListLen + 1) :
            (/\ HasTaskList(d)
             /\ k <= Len(Get(d, "tasks").val)
             /\ lastEvent' = TextEvent(u, Digits(k)))
            => /\ handledBy' = "handle_number_selection"
               /\ get_context_data(ctx', u, "deadline_edit_task")
                    = PyDict(<< <<"task_id", Get(Get(d, "tasks").val[k], "task_id")>> >>)
               /\ sent'[1].text = "select_new_status"
               /\ sent'[1].buttons[1].id[3] = Get(Get(d, "tasks").val[k], "task_id").val

\* C7: for a list of N tasks and pages of 9, the message for page p offers
\* as buttons exactly the tasks at the ordinals 9p+1..min(9p+9, N), and
\* Load More iff 9p+9 < N; each `more`, text or button, advances the stored
\* page by one; a numeric reply k with 1 <= k <= N selects the task at
\* ordinal k of the whole list whatever page is stored.
C7_Pagination ==
    [][\A u \in Senders :
          /\ C7_PageShown(ctx', sent', u)
          /\ C7_MoreAdvances(u)
          /\ C7_NumberSelects(u)]_vars

\* of 23 tasks the reply 15 selected the 15th of the list: the tasks due
\* today (the even ones) come first, so it is task 7
C7_Witness ==
    /\ Len(sprint_board) = 23
    /\ lastEvent = TextEvent(Phone1, <<"1","5">>)
    /\ handledBy = "handle_number_selection"
    /\ get_context_data(ctx, Phone1, "deadline_edit_task")
        = PyDict(<< <<"task_id", PyStr(TaskId(7))>> >>)


-----------------------------------------------------------------------------
(* SpecStore: the context store called directly, for two phone numbers      *)

StoreTypes == {"deadline_edit_task", "task_list_context", "pending_tasks"}

p_target == PyDict(<< <<"task_id", PyStr(TaskId(7))>> >>)
p_list == PyList(<<PyInt(1), PyStr(<<"a","b">>), PyNone>>)

\* payloads: dicts, a list, a number, None, and bare strings
StorePayloads ==
    <<p_target, PyDict(<< >>), p_list, PyInt(5), PyNone,
      PyStr(<<"a","b","c">>), PyStr(<<"5">>), PyStr(<<"\"","x","\"">>)>>

\* a call of the store as an event: message holds the context_type and the
\* payload passed
StoreCall(op, phone_number, context_type, context_data) ==
    [from |-> phone_number, content_type |-> op,
     message |-> <<context_type, context_data>>, fail_at |-> 0]

SetContext ==
    \E phone_number \in Phones, context_type \in StoreTypes, k \in DOMAIN StorePayloads :
        /\ lastEvent' = StoreCall("set_context", phone_number, context_type, StorePayloads[k])
        /\ ctx' = set_context(ctx, phone_number, context_type, StorePayloads[k])
        /\ handledBy' = "set_context"
        /\ raised' = FALSE
        /\ UNCHANGED <<sprint_board, sent>>

ClearContext ==
    \E phone_number \in Phones :
        /\ lastEvent' = StoreCall("clear_context", phone_number, "", PyNone)
        /\ ctx' = clear_context(ctx, phone_number)
        /\ handledBy' = "clear_context"
        /\ raised' = FALSE
        /\ UNCHANGED <<sprint_board, sent>>

NextStore ==
    \/ SetContext
    \/ ClearContext

SpecStore == Init /\ [][NextStore]_vars

\* the last call was set_context
WasSet(event) == event.content_type = "set_context"

\* get_context_data(user, type) right after set_context(user, type, payload)
\* returns the payload
ReadsBack(event) ==
    PyEq(get_context_data(ctx, event.from, event.message[1]), event.message[2])

\* C8 as stated: for every user, context type and JSON payload,
\* get_context_data(user, type) right after set_context(user, type, payload)
\* returns the payload written.
C8_RoundTripEveryPayload ==
    WasSet(lastEvent) => ReadsBack(lastEvent)

\* C8, amended: for every user, context type and JSON payload that is not a
\* bare string, get_context_data(user, type) right after
\* set_context(user, type, payload) returns the payload written.
C8_RoundTrip ==
    (WasSet(lastEvent) /\ lastEvent.message[2].py # "str") => ReadsBack(lastEvent)

\* a list written for the first phone over whatever it held is read back,
\* while the second phone holds a context of its own
C8_Witness ==
    /\ WasSet(lastEvent)
    /\ lastEvent.from = Phone1
    /\ lastEvent.message[1] = "task_list_context"
    /\ lastEvent.message[2].py = "list"
    /\ ReadsBack(lastEvent)
    /\ ctx[Phone2].exists

\* C9: after clear_context(user), get_context(user) is absent and
\* has_context(user, type) is false for every type and for no type, whatever
\* was stored; on a user without a context the store is left as it was; no
\* exception escapes.
C9_ClearContext ==
    [][\A u \in Phones :
          (lastEvent'.content_type = "clear_context" /\ lastEvent'.from = u)
          => /\ ~get_context(ctx', u).found
             /\ \A t \in StoreTypes \cup {""} : ~has_context(ctx', u, t)
             /\ PyEq(get_context_data(ctx', u, ""), PyNone)
             /\ ~ctx[u].exists => ctx' = ctx
             /\ \A v \in Phones \ {u} : ctx'[v] = ctx[v]
             /\ ~raised']_vars

\* the context of the first phone was cleared, that of the second is still
\* there
C9_Witness ==
    /\ lastEvent.content_type = "clear_context"
    /\ lastEvent.from = Phone1
    /\ ~has_context(ctx, Phone1, "")
    /\ has_context(ctx, Phone2, "")

\* C10: after set_context(user, A, x) followed by set_context(user, B, y)
\* with A # B, get_context_data(user, A) still returns x (x a dict, a list,
\* a number or None, which set_context serialises itself).
C10_TypesCoexist ==
    [][(/\ WasSet(lastEvent)
        /\ WasSet(lastEvent')
        /\ lastEvent'.from = lastEvent.from
        /\ lastEvent'.message[1] # lastEvent.message[1]
        /\ lastEvent.message[2].py # "str")
       => PyEq(get_context_data(ctx', lastEvent.from, lastEvent.message[1]),
               lastEvent.message[2])]_vars


-----------------------------------------------------------------------------
(* SpecSession: a batch of pending tasks, its buttons, and time passing    *)

\* the event of the TTL of the flow elapsing after the last write for the
\* phone, with no write in between
TtlElapsed(phone_number) ==
    [from |-> phone_number, content_type |-> "ttl_elapsed", message |-> << >>, fail_at |-> 0]

\* time passes: set_context stored no expiry with the document and nothing
\* in the store reads a clock, so the store is as it was
TtlElapses ==
    \E phone_number \in Senders :
        /\ ctx[phone_number].exists
        /\ lastEvent' = TtlElapsed(phone_number)
        /\ handledBy' = "none"
        /\ raised' = FALSE
        /\ UNCHANGED <<ctx, sprint_board, sent>>

SessionTexts == {e_two_own, t_one, t_friday}

NextSession ==
    \/ OnText(SessionTexts)
    \/ TtlElapses
    \/ OnConfirmTasks
    \/ OnCancelTasks
    \/ OnChangeDeadline
    \/ OnDeadlineButton

SpecSession == Init /\ [][NextSession]_vars

\* C11: once the TTL has elapsed since the last write with no further
\* write, reading the context returns absent as after clear_context, and a
\* CONFIRM_TASKS arriving then creates no task from the old payload.
C11_ContextExpires ==
    [][\A u \in Senders :
          /\ lastEvent'.content_type = "ttl_elapsed" /\ lastEvent'.from = u
             => /\ ~get_context(ctx', u).found
                /\ ~has_context(ctx', u, "")
          /\ (lastEvent.content_type = "ttl_elapsed" /\ lastEvent.from = u
              /\ lastEvent'.content_type = "button")
             => sprint_board' = sprint_board]_vars


-----------------------------------------------------------------------------
(* SpecParse: quick-create messages of one line, built from a name and up  *)
(* to two later fields                                                      *)

l_review_pr == <<"R","e","v","i","e","w"," ","P","R"," ","|"," ","F","e","b"," ","1","0"," ","|"," ","@","j","o","h","n">>
l_fix_bug == <<"F","i","x"," ","b","u","g">>

ParseNames == {<<"R","e","v","i","e","w"," ","P","R"," ">>, l_fix_bug}
ParseFields == {<<" ","F","e","b"," ","1","0"," ">>, <<" ","@","j","o","h","n">>, <<"@","a","l">>, <<" ","t","o","m","o","r","r","o","w">>, <<" ">>}

ParseLines ==
    ParseNames
    \cup {n \o <<"|">> \o f : n \in ParseNames, f \in ParseFields}
    \cup {n \o <<"|">> \o f \o <<"|">> \o g : n \in ParseNames, f \in ParseFields, g \in ParseFields}

NewMessage(line) == <<"n","e","w"," ">> \o line

NextParse ==
    \/ OnText({NewMessage(line) : line \in ParseLines})
    \/ OnAssignUser
    \/ OnCancelTasks

SpecParse == Init /\ [][NextParse]_vars

\* the fields of a line between the '|', without the blanks around them
FieldsOf(line) ==
    LET split == SplitOn(line, "|")
    IN  [i \in 1..Len(split) |-> Strip(split[i])]

IsAtField(f) == Len(f) > 0 /\ f[1] = "@"

\* the last element of l as a str, None when l is empty
LastOrNone(l) == IF Len(l) = 0 THEN PyNone ELSE PyStr(l[Len(l)])

\* parse_task_line gives the first field as task name, the last later field
\* with '@' (without it) as assignee term and the last other later field as
\* deadline text
C12_Fields(line) ==
    LET later == Tail(FieldsOf(line))
        ats == SelectSeq(later, IsAtField)
        others == SelectSeq(later, LAMBDA f : ~IsAtField(f))
    IN  /\ parse_task_line(line).task_name = PyStr(FieldsOf(line)[1])
        /\ PyEq(parse_task_line(line).assignee_str,
                LastOrNone([i \in 1..Len(ats) |-> Tail(ats[i])]))
        /\ PyEq(parse_task_line(line).deadline_str, LastOrNone(others))

\* a line without '|' is previewed as one task due today for the sender
C12_Plain(u, line) ==
    Len(FieldsOf(line)) = 1
    => get_context_data(ctx', u, "pending_tasks")
        = PyList(<<PendingTask(PyStr(Strip(line)), PyStr(IsoText(Today)),
                               Get(get_user_by_phone(u), "name"),
                               display_of(get_user_by_phone(u)))>>)

\* the parts of "Review PR | Feb 10 | @john"
C12_Example ==
    parse_task_line(l_review_pr)
        = [task_name |-> PyStr(<<"R","e","v","i","e","w"," ","P","R">>), deadline_str |-> PyStr(<<"F","e","b"," ","1","0">>),
           assignee_str |-> PyStr(<<"j","o","h","n">>)]

-----------------------------------------------------------------------------
(* SpecStatus: status updates of two persisted tasks of the sender          *)

\* a task in status s as an earlier day left it: completed yesterday when
\* Completed, never completed otherwise
StatusRow(b, s) ==
    LET b1 == InsertTask(b, <<"T">> \o Digits(Len(b) + 1), u_john.name, PyDate(Today),
                         u_john.name)
        id == TaskId(Len(b) + 1)
    IN  IF s = "Completed"
        THEN SetTaskField(SetTaskField(b1, id, "status", s), id, "completed_date",
                          PyStr(IsoText(Today - 1)))
        ELSE SetTaskField(b1, id, "status", s)

InitStatus ==
    /\ ctx = [p \in Phones |-> NoDoc]
    /\ sprint_board \in {StatusRow(StatusRow(<< >>, s1), s2) : s1 \in Statuses, s2 \in Statuses}
    /\ sent = << >>
    /\ lastEvent = NoEvent
    /\ handledBy = "none"
    /\ raised = FALSE

NextStatus ==
    \/ OnSelectTask
    \/ OnStatus

SpecStatus == InitStatus /\ [][NextStatus]_vars

\* `event` is the button STATUS:<status>:<task_id>
IsStatus(event, task_id, status) ==
    event.content_type = "button" /\ event.message = <<"STATUS", status, task_id>>

-----------------------------------------------------------------------------
(* tasks/sprint_board_whatsapp.py: the scheduled job send_overdue_task_alerts *)
(* A datetime is kept to its day, written as the ISO text of the day.  The  *)
(* site has a whatsapp_account configured, as every message sent assumes.   *)

\* now_datetime()
now_datetime == PyStr(IsoText(Today))

\* date_diff(a, b): the days from b to a
date_diff(a, b) == a.val - b.val

\* the rows frappe.get_all returns for the filters status != Completed,
\* deadline < today_date, assigned_to is set
overdue_tasks(b) ==
    SelectSeq(b, LAMBDA task :
        /\ task.status # "Completed"
        /\ Truthy(task.deadline)
        /\ getdate(task.deadline).val < getdate(today).val
        /\ task.assigned_to # << >>)

\* the test that skips a task: never alerted at all
alerted_never(task) == FALSE

\* the test that skips a task: task.last_alerted and
\* getdate(task.last_alerted) == today_date
alerted_today(task) ==
    Truthy(task.last_alerted) /\ getdate(task.last_alerted) = getdate(today)

\* the rows the grouping loop keeps, in the order of the query
alert_tasks(b) == SelectSeq(overdue_tasks(b), LAMBDA task : ~alerted_today(task))

\* the keys of user_tasks in the order the loop inserted them
RECURSIVE alert_users(_)
alert_users(tasks) ==
    IF Len(tasks) = 0 THEN << >>
    ELSE LET before == alert_users(SubSeq(tasks, 1, Len(tasks) - 1))
             user == tasks[Len(tasks)].assigned_to
         IN  IF user \in Range(before) THEN before ELSE Append(before, user)

\* user_tasks[user]: the dicts appended for the rows of `user`
user_tasks(b, user) ==
    LET rows == SelectSeq(alert_tasks(b), LAMBDA task : task.assigned_to = user)
    IN  [k \in 1..Len(rows) |->
            [task_name |-> rows[k].name, task_title |-> rows[k].task_name,
             days_overdue |-> date_diff(getdate(today), getdate(rows[k].deadline)),
             status |-> rows[k].status]]

\* frappe.db.get_value("User", user, "mobile_no"): "" when the user has none
mobile_no_of(user) ==
    LET rows == SelectSeq(UserTable, LAMBDA u : u.name = user)
    IN  IF Len(rows) = 0 THEN << >> ELSE rows[1].mobile_no

\* send_task_list(to_number, tasks, whatsapp_account, is_initial=True) for a
\* non-empty list: one interactive message, a SELECT_TASK button for each task
send_task_list(to_number, tasks) ==
    send_interactive_message(to_number, "You have {n} overdue task(s)",
        <<Len(tasks), [k \in 1..Len(tasks) |-> <<tasks[k].task_title, tasks[k].days_overdue,
                                                 tasks[k].status>>]>>,
        [k \in 1..Len(tasks) |-> Button(<<"SELECT_TASK", tasks[k].task_name>>)])

\* the stamping loop stopping after the first task of the batch
stamp_first_alerted(b, tasks) ==
    IF Len(tasks) = 0 THEN b
    ELSE SetTaskField(b, tasks[1].task_name, "last_alerted", now_datetime)

\* the stamping loop after a send: last_alerted = now_datetime() for each task
RECURSIVE stamp_last_alerted(_, _)
stamp_last_alerted(b, tasks) ==
    IF Len(tasks) = 0 THEN b
    ELSE stamp_last_alerted(SetTaskField(b, tasks[1].task_name, "last_alerted", now_datetime),
                            Tail(tasks))

\* the loop over user_tasks.items() ending at the first user without a
\* phone or whose send raises
RECURSIVE alert_each_user_stops(_, _, _, _, _)
alert_each_user_stops(b0, b, out, users, failing) ==
    IF Len(users) = 0 THEN [board |-> b, sent |-> out]
    ELSE LET user == users[1]
             tasks == user_tasks(b0, user)
             mobile_no == RemoveChars(mobile_no_of(user), {" ", "-", "+"})
         IN  IF Len(mobile_no_of(user)) = 0 \/ user \in failing
             THEN [board |-> b, sent |-> out]
             ELSE alert_each_user_stops(b0, stamp_last_alerted(b, tasks),
                                        Append(out, send_task_list(mobile_no, tasks)),
                                        Tail(users), failing)

\* the loop over user_tasks.items(): `users` are the keys left, `failing` the
\* users whose send raises; the answer is the [board, sent] pair it leaves
RECURSIVE alert_each_user(_, _, _, _, _)
alert_each_user(b0, b, out, users, failing) ==
    IF Len(users) = 0 THEN [board |-> b, sent |-> out]
    ELSE LET user == users[1]
             tasks == user_tasks(b0, user)
             mobile_no == RemoveChars(mobile_no_of(user), {" ", "-", "+"})
         IN  IF Len(mobile_no_of(user)) = 0 \/ user \in failing
             THEN alert_each_user(b0, b, out, Tail(users), failing)
             ELSE alert_each_user(b0, stamp_last_alerted(b, tasks),
                                  Append(out, send_task_list(mobile_no, tasks)),
                                  Tail(users), failing)

\* send_overdue_task_alerts()
send_overdue_task_alerts(b, failing) ==
    alert_each_user(b, b, << >>, alert_users(alert_tasks(b)), failing)

\* the scheduler's event
AlertRun ==
    [from |-> Phone1, content_type |-> "scheduler", message |-> <<"send_overdue_task_alerts">>,
     fail_at |-> 0]

\* the users who are assigned tasks
AlertUsers == {u_john.name, u_alice.name, u_dora.name}

RunOverdueAlerts ==
    \E failing \in SUBSET AlertUsers :
        LET r == send_overdue_task_alerts(sprint_board, failing)
        IN  /\ lastEvent' = AlertRun
            /\ sprint_board' = r.board
            /\ sent' = r.sent
            /\ handledBy' = "send_overdue_task_alerts"
            /\ raised' = FALSE
            /\ UNCHANGED ctx

-----------------------------------------------------------------------------
(* SpecAlerts: alert runs over boards of two tasks, and the selections of    *)
(* the tasks an alert offers                                                *)

\* a task as earlier days left it
AlertRow(b, status, deadline, assigned_to, last_alerted) ==
    LET id == TaskId(Len(b) + 1)
        b1 == InsertTask(b, <<"T">> \o Digits(Len(b) + 1), assigned_to, deadline, u_john.name)
    IN  SetTaskField(SetTaskField(b1, id, "status", status), id, "last_alerted", last_alerted)

\* the deadlines and the last alerts of a task: the deadlines as dates, the
\* alerts as 0 for never and else the day
AlertDeadlines == {Today - 2, Today}
AlertDays == {0, Today - 1, Today}

AlertBoards(b) ==
    {AlertRow(b, status, PyDate(deadline), assigned_to,
              IF day = 0 THEN PyNone ELSE PyStr(IsoText(day))) :
        status \in {"In Progress", "Completed"}, deadline \in AlertDeadlines,
        assigned_to \in AlertUsers \cup {<< >>}, day \in AlertDays}

InitAlerts ==
    /\ ctx = [p \in Phones |-> NoDoc]
    /\ sprint_board \in UNION {AlertBoards(b) : b \in AlertBoards(<< >>)}
    /\ sent = << >>
    /\ lastEvent = NoEvent
    /\ handledBy = "none"
    /\ raised = FALSE

NextAlerts ==
    \/ RunOverdueAlerts
    \/ OnSelectTask

SpecAlerts == InitAlerts /\ [][NextAlerts]_vars

\* the task is one the query of the job returns
IsOverdue(task) ==
    /\ task.status # "Completed"
    /\ task.assigned_to # << >>
    /\ Truthy(task.deadline)
    /\ getdate(task.deadline).val < Today

\* the task is in the batch grouped for its assignee
InBatch(b, task) ==
    \E k \in 1..Len(user_tasks(b, task.assigned_to)) :
        user_tasks(b, task.assigned_to)[k].task_name = task.name

\* a message of `out` offers the task
InAlert(out, task) ==
    \E m \in 1..Len(out) : \E k \in 1..Len(out[m].buttons) :
        out[m].buttons[k].id = <<"SELECT_TASK", task.name>>

\* C14: in one run of send_overdue_task_alerts a non-Completed task with an
\* assignee and a deadline before today is in the batch of its assignee
\* exactly when its last_alerted is unset or on another day than today; only
\* tasks of the batch are in a message sent, each is then stamped, and a task
\* alerted today is in no message and keeps its last_alerted.
C14_AlertDedup ==
    [][lastEvent' = AlertRun
       => \A i \in 1..Len(sprint_board) :
            LET task == sprint_board[i]
                fresh == ~Truthy(task.last_alerted) \/ getdate(task.last_alerted).val # Today
            IN  IsOverdue(task)
                => /\ InBatch(sprint_board, task) <=> fresh
                   /\ InAlert(sent', task) => fresh /\ sprint_board'[i].last_alerted = now_datetime
                   /\ ~fresh => /\ ~InAlert(sent', task)
                                /\ sprint_board'[i] = task
                   /\ fresh /\ ~InAlert(sent', task) => sprint_board'[i] = task]_vars

\* one run alerted john of task 1, last alerted yesterday, and left out
\* task 2, already alerted today
C14_Witness ==
    /\ lastEvent = AlertRun
    /\ Len(sent) = 1
    /\ sent[1].to = Phone1
    /\ Len(sent[1].buttons) = 1
    /\ sent[1].buttons[1].id = <<"SELECT_TASK", TaskId(1)>>
    /\ sent[1].args[2][1][2] = 2
    /\ IsOverdue(sprint_board[2])
    /\ sprint_board[2].assigned_to = u_john.name
    /\ sprint_board[1].last_alerted = now_datetime


-----------------------------------------------------------------------------
(* "Add Another" in the guided flow, checked under Spec                     *)

\* `event` is the button ADD_ANOTHER_TASK of u
IsAddAnother(event, u) ==
    event = ButtonEvent(u, <<"ADD_ANOTHER_TASK">>, 0)

\* the tasks the guided flow of u has finished, << >> when it has none
GuidedTasks(c, u) ==
    LET d == get_context_data(c, u, "guided_flow")
    IN  IF Truthy(d) THEN GetOr(d, "tasks", PyList(<< >>)).val ELSE << >>

\* the batch awaiting the confirmation of u, << >> when there is none
BatchOf(c, u) ==
    LET tasks == get_context_data(c, u, "pending_tasks")
    IN  IF Truthy(tasks) THEN tasks.val ELSE << >>

\* C15: "Add Another" restarts the guided flow keeping the existing tasks:
\* pressing ADD_ANOTHER_TASK on the preview of a finalized guided task puts
\* the flow at the name step with the tasks of the preview kept, and the
\* task then completed (name, deadline, assignee) is previewed in a batch
\* that holds the kept tasks followed by it, so both the first and the
\* second task.
C15_AddAnotherKeepsTasks ==
    [][\A u \in Senders :
          /\ (IsAddAnother(lastEvent', u) /\ Len(BatchOf(ctx, u)) > 0)
             => /\ has_context(ctx', u, "guided_flow")
                /\ GuidedTasks(ctx', u) = BatchOf(ctx, u)
          /\ (has_context(ctx, u, "guided_flow") /\ has_context(ctx', u, "pending_tasks"))
             => /\ Len(BatchOf(ctx', u)) = Len(GuidedTasks(ctx, u)) + 1
                /\ SubSeq(BatchOf(ctx', u), 1, Len(GuidedTasks(ctx, u))) = GuidedTasks(ctx, u)]_vars


-----------------------------------------------------------------------------
(* SpecCancel: the guided flow with the text cancel in several letter cases *)

s_Cancel == <<"C","a","n","c","e","l">>
s_CANCEL == <<" ","C","A","N","C","E","L"," ">>

\* the texts that are `cancel` in some letter case
CancelWords == {s_cancel, s_Cancel, s_CANCEL}

CancelTexts == CancelWords \cup {s_tomorrow, t_john}

NextCancel ==
    \/ OnText(CancelTexts)
    \/ OnMenuAddTask
    \/ OnGuidedDeadlineButton
    \/ OnConfirmTasks

SpecCancel == Init /\ [][NextCancel]_vars

\* the step the guided flow of u stands at, "" when u has no guided flow
GuidedStep(c, u) ==
    LET d == get_context_data(c, u, "guided_flow")
    IN  IF Truthy(d) /\ HasKey(d, "step") THEN Get(d, "step").val ELSE ""

\* C16: in the guided flow the text cancel, in any letter case and at any
\* of the steps name, deadline and assignee, is answered as a cancellation,
\* leaves the user without any context, so without a guided_flow context,
\* creates no task and raises nothing.
C16_CancelAnyCase ==
    [][\A u \in Senders : \A word \in CancelWords :
          (GuidedStep(ctx, u) \in {"name", "deadline", "assignee"}
           /\ lastEvent' = TextEvent(u, word))
          => /\ ~ctx'[u].exists
             /\ ~has_context(ctx', u, "guided_flow")
             /\ sprint_board' = sprint_board
             /\ sent' = <<send_reply(u, "task_creation_cancelled", << >>)>>
             /\ ~raised']_vars

\* " CANCEL " was answered as a cancellation and the sender has no context
C16_Witness ==
    /\ lastEvent = TextEvent(Phone1, s_CANCEL)
    /\ sent = <<send_reply(Phone1, "task_creation_cancelled", << >>)>>
    /\ ~ctx[Phone1].exists


-----------------------------------------------------------------------------
(* Inputs of the confirmation and deadline-edit flow with no context,       *)
(* checked under SpecSession                                                *)

\* the inputs of the flow: the five buttons and the number of a task
FlowInputs(u) ==
    {ButtonEvent(u, <<"CONFIRM_TASKS">>, 0), ButtonEvent(u, <<"CANCEL_TASKS">>, 0),
     ButtonEvent(u, <<"CHANGE_DEADLINE">>, 0), ButtonEvent(u, <<"DEADLINE", "TODAY">>, 0),
     ButtonEvent(u, <<"DEADLINE", "TOMORROW">>, 0), TextEvent(u, t_one)}

\* the replies that ask the user to start again
StartAgainReplies(u) ==
    {send_reply(u, "no_pending_tasks_found", << >>), send_reply(u, "session_expired", << >>)}

\* C17: when the user has no context at all, so no pending-tasks context,
\* each input of the confirmation and deadline-edit flow (CONFIRM_TASKS,
\* CANCEL_TASKS, CHANGE_DEADLINE, DEADLINE_TODAY, DEADLINE_TOMORROW, a
\* deadline-selection number) is answered with a "please start again"
\* reply, raises nothing and creates no task.
C17_NoContextStartAgain ==
    [][\A u \in Senders :
          (~ctx[u].exists /\ lastEvent' \in FlowInputs(u))
          => /\ \E k \in 1..Len(sent') : sent'[k] \in StartAgainReplies(u)
             /\ ~raised'
             /\ sprint_board' = sprint_board]_vars


-----------------------------------------------------------------------------
(* Exceptions leaving a handler, checked under Spec                         *)

\* C18: no flow handler lets an exception escape to its caller: whatever the
\* inbound event and the session state it arrives in, the handler that took
\* the event returned normally.
C18_NoExceptionEscapes == ~raised


-----------------------------------------------------------------------------
(* SpecDone: the text done after "Add Another"                              *)

s_done == <<"d","o","n","e">>

DoneTexts == {s_done, s_tomorrow, t_john}

NextDone ==
    \/ OnText(DoneTexts)
    \/ OnMenuAddTask
    \/ OnAddAnotherTask
    \/ OnGuidedDeadlineButton
    \/ OnGuidedAssignMe
    \/ OnCancelTasks

SpecDone == Init /\ [][NextDone]_vars

\* the task the guided flow of u is entering, as its context holds it
GuidedCurrent(c, u) ==
    LET d == get_context_data(c, u, "guided_flow")
    IN  IF Truthy(d) THEN GetOr(d, "current", PyDict(<< >>)) ELSE PyDict(<< >>)

\* C19: after "Add Another", in the name step, the text done skips adding a
\* task and brings the user back to confirming the existing tasks: no task
\* named "done" is started, and the tasks the flow holds are the pending
\* batch shown for confirmation.
C19_DoneConfirmsExisting ==
    [][\A u \in Senders :
          (/\ IsAddAnother(lastEvent, u)
           /\ GuidedStep(ctx, u) = "name"
           /\ lastEvent' = TextEvent(u, s_done))
          => /\ ~HasKey(GuidedCurrent(ctx', u), "task_name")
             /\ has_context(ctx', u, "pending_tasks")
             /\ BatchOf(ctx', u) = GuidedTasks(ctx, u)
             /\ \E k \in 1..Len(sent') : sent'[k].content_type = "interactive"]_vars


-----------------------------------------------------------------------------
(* SpecChain: chains of ambiguous assignees whose tasks all have candidates *)

\* a task of the sender followed by two ambiguous tasks
q_own_then_two == <<"n","e","w"," ","A","\n","B","|","@","a","l","\n","C","|","@","a","l">>
\* three ambiguous tasks
q_three_ambiguous == <<"n","e","w"," ","A","|","@","a","l","\n","B","|","@","a","l","\n","C","|","@","a","l">>
\* an ambiguous task followed by a task of the sender
q_one_then_own == <<"n","e","w"," ","A","|","@","a","l","\n","B">>

\* two ambiguous tasks followed by a task of the sender
q_two_then_own == <<"n","e","w"," ","A","|","@","a","l","\n","B","|","@","a","l","\n","C">>

\* one ambiguous task
q_one_ambiguous == <<"n","e","w"," ","A","|","@","a","l">>

ChainTexts ==
    {q_one_ambiguous, q_two_ambiguous, q_own_then_two, q_three_ambiguous, q_one_then_own,
     q_two_then_own}

\* the names of the tasks of a message of ChainTexts
NamesOf(message) ==
    IF message = q_one_ambiguous THEN {<<"A">>}
    ELSE IF message \in {q_two_ambiguous, q_one_then_own} THEN {<<"A">>, <<"B">>}
    ELSE {<<"A">>, <<"B">>, <<"C">>}

NextChain ==
    \/ OnText(ChainTexts)
    \/ OnAssignUser
    \/ OnCancelTasks

SpecChain == Init /\ [][NextChain]_vars

\* the task names of a list of task dicts
TaskNames(tasks) == [k \in 1..Len(tasks) |-> Get(tasks[k], "task_name").val]

\* the chain of u: the names of the confirmed tasks, of the task displayed
\* and of the queue; the three are empty when u is in no chain
ChainOf(c, u) ==
    LET d == get_context_data(c, u, "pending_task_assign")
    IN  IF Truthy(d)
        THEN [confirmed |-> TaskNames(Get(d, "confirmed_tasks").val),
              displayed |-> <<Get(Get(d, "task_info"), "task_name").val>>,
              queue |-> TaskNames(Get(d, "remaining_ambiguous").val)]
        ELSE [confirmed |-> << >>, displayed |-> << >>, queue |-> << >>]

\* every task of the chain, in the order confirmed, displayed, queued
AllOf(chain) == chain.confirmed \o chain.displayed \o chain.queue

\* no name twice in the sequence
Distinct(names) == \A i, j \in 1..Len(names) : names[i] = names[j] => i = j

\* the message sent is the preview of `tasks`, which are also the batch
\* awaiting confirmation
Previewed(c, s, u, names) ==
    /\ has_context(c, u, "pending_tasks")
    /\ TaskNames(BatchOf(c, u)) = names
    /\ Len(s) = 1
    /\ s[1] = show_task_confirmation(c, PyList(BatchOf(c, u)), u, FALSE).msg

\* a preview is shown to u
PreviewShown(c, s, u) ==
    /\ has_context(c, u, "pending_tasks")
    /\ \E k \in 1..Len(s) :
        s[k] = show_task_confirmation(c, PyList(BatchOf(c, u)), u, FALSE).msg

\* C20: throughout a chain of ambiguous tasks that all have candidates,
\* every task of the original message is in exactly one of the confirmed
\* tasks, the task displayed and the queue: the message starts the chain
\* with each of its tasks once, and a selection moves the task displayed to
\* the confirmed ones and the head of the queue to the display, keeping all
\* others; the preview is shown exactly when a selection is made with the
\* queue empty, and its batch holds every task of the chain once; no other
\* button shows a preview or changes the chain.
C20_ChainPartition ==
    [][\A u \in Senders :
          LET chain == ChainOf(ctx, u)
              chain1 == ChainOf(ctx', u)
              selection == \E user_name \in ButtonUsers : IsAssignUser(lastEvent', u, user_name)
          IN  /\ (lastEvent'.content_type = "text" /\ lastEvent'.message \in ChainTexts
                  /\ lastEvent'.from = u)
                 => /\ has_context(ctx', u, "pending_task_assign")
                    /\ Range(AllOf(chain1)) = NamesOf(lastEvent'.message)
                    /\ Distinct(AllOf(chain1))
                    /\ ~PreviewShown(ctx', sent', u)
              /\ (has_context(ctx, u, "pending_task_assign") /\ selection)
                 => /\ Distinct(AllOf(chain))
                    /\ IF Len(chain.queue) = 0
                       THEN Previewed(ctx', sent', u, AllOf(chain))
                       ELSE /\ AllOf(chain1) = AllOf(chain)
                            /\ chain1.confirmed = chain.confirmed \o chain.displayed
                            /\ chain1.displayed = <<Head(chain.queue)>>
                            /\ ~PreviewShown(ctx', sent', u)
              /\ (has_context(ctx, u, "pending_task_assign")
                  /\ lastEvent'.content_type = "button" /\ ~selection)
                 => /\ chain1 = chain
                    /\ ~PreviewShown(ctx', sent', u)]_vars

\* the last selection of the chain of q_own_then_two was made and the
\* preview holds the three tasks of the message
C20_Witness ==
    /\ \E user_name \in ButtonUsers : IsAssignUser(lastEvent, Phone1, user_name)
    /\ Previewed(ctx, sent, Phone1, <<<<"A">>, <<"B">>, <<"C">>>>)
    /\ Get(BatchOf(ctx, Phone1)[1], "assignee").val = u_john.name


-----------------------------------------------------------------------------
(* SpecRoute: where the lines of a quick-create message go                  *)

\* the lines of the messages: the text, the title, the place the line is to
\* go to ("direct" with the assignee, "queue" or "nowhere").  A line whose
\* text after @ is empty names no assignee.
RouteLines ==
    <<[text |-> <<"A">>, title |-> <<"A">>, place |-> "direct", assignee |-> u_john.name],
      [text |-> <<"B"," ","|"," ","@","b","o">>, title |-> <<"B">>, place |-> "direct", assignee |-> u_bob.name],
      [text |-> <<"C","|","@","a","l">>, title |-> <<"C">>, place |-> "queue", assignee |-> << >>],
      [text |-> <<"D","|","@","z","z">>, title |-> <<"D">>, place |-> "queue", assignee |-> << >>],
      [text |-> <<" ","|","@","a","l">>, title |-> << >>, place |-> "nowhere", assignee |-> << >>],
      [text |-> <<"E","|","@">>, title |-> <<"E">>, place |-> "direct", assignee |-> u_john.name]>>

\* the message of the lines i and j
RouteMessage(i, j) == <<"n","e","w"," ">> \o RouteLines[i].text \o <<"\n">> \o RouteLines[j].text

RouteTexts == {RouteMessage(i, j) : i, j \in DOMAIN RouteLines}

NextRoute ==
    \/ OnText(RouteTexts)
    \/ OnCancelTasks

SpecRoute == Init /\ [][NextRoute]_vars

\* the lines of `sent_lines` that are to go to `place`
GoingTo(sent_lines, place) == SelectSeq(sent_lines, LAMBDA l : l.place = place)

\* the titles of a sequence of lines
Titles(sent_lines) == [k \in 1..Len(sent_lines) |-> sent_lines[k].title]

\* the assignees of a list of task dicts
Assignees(tasks) == [k \in 1..Len(tasks) |-> Get(tasks[k], "assignee").val]

\* what the loop over the two lines answers
Routed(i, j, u) ==
    ProcessLines(<<Strip(RouteLines[i].text), Strip(RouteLines[j].text)>>, 2,
                 get_user_by_phone(u), [k \in 1..2 |-> NoDate])

\* C21: in quick-create every line with a title goes to exactly one place:
\* the direct batch, with the sender as assignee when it names no assignee
\* and with the matched user when its assignee text has exactly one match,
\* and else the queue of ambiguous tasks; a line with an empty title goes
\* nowhere; when the queue is not empty no preview is shown, the chain being
\* started with the direct batch as its confirmed tasks when the head of the
\* queue has candidates; with an empty queue the direct batch is previewed.
C21_LineRouting ==
    [][\A u \in Senders : \A i, j \in DOMAIN RouteLines :
          lastEvent' = TextEvent(u, RouteMessage(i, j))
          => LET sent_lines == <<RouteLines[i], RouteLines[j]>>
                 direct == GoingTo(sent_lines, "direct")
                 queue == GoingTo(sent_lines, "queue")
                 r == Routed(i, j, u)
             IN  /\ TaskNames(r.parsed_tasks) = Titles(direct)
                 /\ Assignees(r.parsed_tasks) = [k \in 1..Len(direct) |-> direct[k].assignee]
                 /\ TaskNames(r.needs_user_confirmation) = Titles(queue)
                 /\ Len(queue) > 0
                    => /\ ~PreviewShown(ctx', sent', u)
                       /\ \A k \in 1..Len(sent') : sent'[k].text # "creating_tasks"
                       /\ Candidates(r.needs_user_confirmation[1]) > 0
                          => ChainOf(ctx', u) = [confirmed |-> Titles(direct),
                                                 displayed |-> <<queue[1].title>>,
                                                 queue |-> Titles(Tail(queue))]
                 /\ (Len(queue) = 0 /\ Len(direct) > 0)
                    => /\ Previewed(ctx', sent', u, Titles(direct))
                       /\ Assignees(BatchOf(ctx', u)) = Assignees(r.parsed_tasks)]_vars

\* the message of "B | @bo" and "C|@al" started a chain that displays C and
\* holds B, assigned to the one match of bo, as confirmed
C21_Witness ==
    /\ lastEvent = TextEvent(Phone1, RouteMessage(2, 3))
    /\ ChainOf(ctx, Phone1) = [confirmed |-> <<<<"B">>>>, displayed |-> <<<<"C">>>>,
                               queue |-> << >>]
    /\ Assignees(Get(get_context_data(ctx, Phone1, "pending_task_assign"),
                     "confirmed_tasks").val) = <<u_bob.name>>
    /\ ~PreviewShown(ctx, sent, Phone1)


-----------------------------------------------------------------------------
(* The deadline edit of a pending batch, checked under SpecEdit             *)

\* `event` is a deadline input of u: a text of EditTexts or one of the two
\* deadline buttons
IsDeadlineInput(event, u) ==
    \/ \E message \in EditTexts : event = TextEvent(u, message)
    \/ \E deadline_type \in {"TODAY", "TOMORROW"} :
        event = ButtonEvent(u, <<"DEADLINE", deadline_type>>, 0)

\* the days a deadline input can stand for: the keywords and the buttons
\* one day each, any other text what the date parsers may answer
DaysOf(event) ==
    IF event.message \in {s_tomorrow, <<"DEADLINE", "TOMORROW">>} THEN {Today + 1}
    ELSE IF event.message = <<"DEADLINE", "TODAY">> THEN {Today}
    ELSE {Today, Today + MaxAhead}

\* the task dict without its deadline
SansDeadline(task) ==
    <<Get(task, "task_name"), Get(task, "assignee"), Get(task, "assignee_display")>>

NoSelection(N) ==
    {message \in {t_one, t_two, t_three, s_tomorrow, t_friday} :
        ~IsDigit(message) \/ ToInt(message) \notin 1..N}

\* C23: in the selecting mode over N pending tasks a text that is a number
\* outside 1..N or is not a number is answered with a prompt for a number
\* and leaves the deadline_edit context as it is, in the mode selecting
\* with the same tasks.
C23_BadSelectionReprompts ==
    [][\A u \in Senders :
          LET d == get_context_data(ctx, u, "deadline_edit")
          IN  (/\ EditMode(d, "selecting")
               /\ lastEvent'.content_type = "text"
               /\ lastEvent'.from = u
               /\ lastEvent'.message \in NoSelection(Len(Get(d, "tasks").val)))
              => /\ Len(sent') > 0
                 /\ sent'[1].to = u
                 /\ ctx'[u] = ctx[u]
                 /\ ~raised']_vars


-----------------------------------------------------------------------------
(* The assignee step of the guided flow with nobody matching, checked       *)
(* under Spec                                                               *)

-----------------------------------------------------------------------------
(* SpecAssignee: the assignee step of the guided flow with several matches  *)

\* a text matching two users, and one matching three
t_al == <<"a","l">>
t_o == <<"o">>

AssigneeTexts == {t_fix_bug, t_al, t_o}

NextAssignee ==
    \/ OnText(AssigneeTexts)
    \/ OnMenuAddTask
    \/ OnGuidedDeadlineButton
    \/ OnGuidedAssignee

SpecAssignee == Init /\ [][NextAssignee]_vars

\* `event` is the button GUIDED_ASSIGNEE:<user_name> pressed by u
IsGuidedAssignee(event, u, user_name) ==
    event = ButtonEvent(u, <<"GUIDED_ASSIGNEE", user_name>>, 0)

\* the message offering the first three of `matches` as buttons
Offered(u, message, matches) ==
    send_interactive_message(u, "multiple_matches", <<message>>,
        [i \in 1..(IF Len(matches) < 3 THEN Len(matches) ELSE 3) |->
            Button(<<"GUIDED_ASSIGNEE", Get(matches[i], "name").val>>)])

\* C25: in the assignee step of the guided flow a text with more than one
\* fuzzy match is answered with at most 3 GUIDED_ASSIGNEE buttons, one for
\* each of the first matches, and leaves the context at the step assignee;
\* pressing the button of a user finalizes the current task with exactly
\* that user as assignee and with its own task_name and deadline, after the
\* tasks the flow held.
C25_CandidateButtons ==
    [][\A u \in Senders :
          /\ (/\ GuidedStep(ctx, u) = "assignee"
              /\ lastEvent'.content_type = "text"
              /\ lastEvent'.from = u
              /\ Len(fuzzy_search_user(lastEvent'.message)) > 1)
             => /\ sent' = <<Offered(u, lastEvent'.message,
                                     fuzzy_search_user(lastEvent'.message))>>
                /\ Len(sent'[1].buttons) \in 2..3
                /\ ctx'[u] = ctx[u]
          /\ \A user_name \in ButtonUsers :
               (/\ GuidedStep(ctx, u) = "assignee"
                /\ IsGuidedAssignee(lastEvent', u, user_name))
               => /\ ~has_context(ctx', u, "guided_flow")
                  /\ BatchOf(ctx', u)
                       = Append(GuidedTasks(ctx, u),
                                PendingTask(Get(GuidedCurrent(ctx, u), "task_name"),
                                            Get(GuidedCurrent(ctx, u), "deadline"),
                                            PyStr(user_name),
                                            display_of(get_user_doc(user_name))))]_vars


-----------------------------------------------------------------------------
(* A failing confirmation, checked under SpecQuick                          *)

\* C26: when CONFIRM_TASKS fails at task k of a batch of N, with k > 1, the
\* tasks 1..k-1 created before the failure are on the Sprint Board after
\* the event, after the rows that were there, and nothing else is: nothing
\* is rolled back and no insert is tried again.
C26_PartialBatchPersists ==
    [][\A u \in Senders, k \in 2..MaxBoard :
          (/\ Truthy(PendingBatch(ctx, u))
           /\ k <= Len(PendingBatch(ctx, u).val)
           /\ IsConfirm(lastEvent', u, k))
          => CreatedFrom(sprint_board, sprint_board',
                         SubSeq(PendingBatch(ctx, u).val, 1, k - 1))]_vars

\* the insert of B, the second task of the batch, threw, and A is the one
\* row of the Sprint Board
C26_Witness ==
    /\ IsConfirm(lastEvent, Phone1, 2)
    /\ Len(sprint_board) = 1
    /\ sprint_board[1].task_name = <<"A">>
    /\ Get(PendingBatch(ctx, Phone1).val[2], "task_name") = PyStr(<<"B">>)


-----------------------------------------------------------------------------
(* A number past the end of the list, checked under SpecList                *)

\* C27: with a task_list_context of N tasks, a bare numeric reply k > N is
\* answered with one error naming the range 1..N, and the session context
\* (task array, page, summary) and every persisted task are as before.
C27_OutOfRangeNumber ==
    [][\A u \in Senders, k \in 1..(MaxListLen + 1) :
          LET d == get_context_data(ctx, u, "task_list_context")
          IN  (/\ HasTaskList(d)
               /\ k > Len(Get(d, "tasks").val)
               /\ lastEvent' = TextEvent(u, Digits(k)))
              => /\ handledBy' = "handle_number_selection"
                 /\ sent' = <<send_reply(u, "invalid_number",
                                         <<Len(Get(d, "tasks").val)>>)>>
                 /\ ctx' = ctx
                 /\ sprint_board' = sprint_board]_vars

\* the reply 10 to a list of nine tasks
C27_Witness ==
    /\ lastEvent = TextEvent(Phone1, Digits(10))
    /\ Len(sprint_board) = 9
    /\ sent = <<send_reply(Phone1, "invalid_number", <<9>>)>>
    /\ HasTaskList(get_context_data(ctx, Phone1, "task_list_context"))
    /\ Len(Get(get_context_data(ctx, Phone1, "task_list_context"), "tasks").val) = 9


-----------------------------------------------------------------------------
(* The status buttons of a selected task, checked under SpecStatus          *)

\* the place of a status in the display order
DisplayRank(status) ==
    CASE status = "Completed" -> 1
      [] status = "In Progress" -> 2
      [] status = "On Hold" -> 3
      [] status = "Not Started" -> 4

\* `event` is the button SELECT_TASK:<task_id>
IsSelectTask(event, task_id) ==
    event.content_type = "button" /\ event.message = <<"SELECT_TASK", task_id>>

\* C28: selecting a persisted task whose status is one of the four values
\* sends one message with three buttons, STATUS:<status>:<task_id> for
\* each of the three other statuses, in the relative order Completed,
\* In Progress, On Hold, Not Started; none is for the current status.
C28_OtherStatusesOffered ==
    [][\A i \in 1..Len(sprint_board) :
          (/\ sprint_board[i].status \in Statuses
           /\ IsSelectTask(lastEvent', sprint_board[i].name))
          => /\ Len(sent') = 1
             /\ sent'[1].text = "select_new_status"
             /\ Len(sent'[1].buttons) = 3
             /\ \A k \in 1..3 :
                  /\ Len(sent'[1].buttons[k].id) = 3
                  /\ sent'[1].buttons[k].id[1] = "STATUS"
                  /\ sent'[1].buttons[k].id[3] = sprint_board[i].name
                  /\ sent'[1].buttons[k].id[2] # sprint_board[i].status
             /\ {sent'[1].buttons[k].id[2] : k \in 1..3}
                  = Statuses \ {sprint_board[i].status}
             /\ \A k \in 1..2 :
                  DisplayRank(sent'[1].buttons[k].id[2])
                    < DisplayRank(sent'[1].buttons[k + 1].id[2])]_vars

\* the second task, on hold, was selected: Completed, In Progress and
\* Not Started are offered
C28_Witness ==
    /\ Len(sprint_board) = 2
    /\ IsSelectTask(lastEvent, TaskId(2))
    /\ sprint_board[2].status = "On Hold"
    /\ Len(sent) = 1
    /\ [k \in 1..3 |-> sent[1].buttons[k].id[2]]
         = <<"Completed", "In Progress", "Not Started">>


-----------------------------------------------------------------------------
(* SpecChange: the deadline of a persisted task changed with `change`       *)

\* two open tasks of the sender, due the day before yesterday or in two days
ChangeBoards ==
    {InsertTask(InsertTask(<< >>, <<"T", "1">>, u_john.name, PyDate(d1), u_john.name),
                <<"T", "2">>, u_john.name, PyDate(d2), u_john.name) :
        d1 \in {Today - 2, Today + 2}, d2 \in {Today - 2, Today + 2}}

InitChange ==
    /\ ctx = [p \in Phones |-> NoDoc]
    /\ sprint_board \in ChangeBoards
    /\ sent = << >>
    /\ lastEvent = NoEvent
    /\ handledBy = "none"
    /\ raised = FALSE

\* the texts a user answers the deadline prompt with that are no keyword of
\* an earlier step of the text precedence
DeadlineTexts == {s_tomorrow, t_friday}

ChangeTexts == {s_change, s_today} \cup DeadlineTexts

NextChange ==
    \/ OnSelectTask
    \/ OnText(ChangeTexts)
    \/ OnDeadlineButton

SpecChange == InitChange /\ [][NextChange]_vars

\* `event` is a deadline input of u: one of the two buttons or one of texts
IsDeadlineEntry(event, u, texts) ==
    /\ event.from = u
    /\ \/ /\ event.content_type = "button"
          /\ event.message \in {<<"DEADLINE", "TODAY">>, <<"DEADLINE", "TOMORROW">>}
       \/ /\ event.content_type = "text"
          /\ event.message \in texts

\* the dates parse_date can give for the deadline input `event`
EntryDates(event) ==
    IF event.content_type = "button"
    THEN {IF event.message[2] = "TODAY" THEN getdate(today) ELSE add_days(getdate(today), 1)}
    ELSE {parse_date(PyStr(event.message), parsed) : parsed \in DateParserOutcomes}

\* the task at row i is the deadline-edit target of u
TargetIs(c, b, u, i) ==
    get_context_data(c, u, "deadline_edit_task")
        = PyDict(<< <<"task_id", PyStr(b[i].name)>> >>)

\* after the text `change` of u with the task at row i selected, a deadline
\* input out of the buttons and `texts` sets the deadline of that task and
\* of no other and clears the target; the deadline input after it changes
\* no persisted task
ChangeThenEntry(texts) ==
    \A u \in Senders :
        /\ \A i \in 1..Len(sprint_board) :
              (/\ lastEvent = TextEvent(u, s_change)
               /\ TargetIs(ctx, sprint_board, u, i)
               /\ IsDeadlineEntry(lastEvent', u, texts))
              => /\ sprint_board'[i].deadline \in EntryDates(lastEvent')
                 /\ sprint_board'
                      = [sprint_board EXCEPT ![i].deadline = sprint_board'[i].deadline]
                 /\ ~has_context(ctx', u, "deadline_edit_task")
        /\ (/\ IsDeadlineEntry(lastEvent, u, texts)
            /\ Len(sent) > 0
            /\ sent[1].text = "deadline_updated_task"
            /\ IsDeadlineEntry(lastEvent', u, texts))
           => sprint_board' = sprint_board

-----------------------------------------------------------------------------
(* Alerts over several runs of one day, checked under SpecAlerts            *)

\* message m of `out` offers the task
InMessage(out, m, task) ==
    \E k \in 1..Len(out[m].buttons) : out[m].buttons[k].id = <<"SELECT_TASK", task.name>>

\* the task carries today's stamp
StampedToday(task) ==
    Truthy(task.last_alerted) /\ getdate(task.last_alerted).val = Today

\* C30: over the runs of send_overdue_task_alerts of one day each overdue
\* task is in at most one alert sent.  Step by step: a run puts a task in
\* at most one message and no two messages of a run are for the same
\* assignee; a message sent holds the whole batch of its assignee and every
\* task of it carries today's stamp after the run; a task that carries
\* today's stamp is in no message of a run; and no step, of a run or
\* between runs, takes today's stamp from a task.
C30_OneAlertADay ==
    [][/\ Len(sprint_board') = Len(sprint_board)
       /\ \A i \in 1..Len(sprint_board) :
            StampedToday(sprint_board[i]) => StampedToday(sprint_board'[i])
       /\ lastEvent' = AlertRun
          => /\ \A i \in 1..Len(sprint_board) :
                  LET task == sprint_board[i]
                  IN  /\ StampedToday(task) => ~InAlert(sent', task)
                      /\ InAlert(sent', task)
                         => /\ IsOverdue(task)
                            /\ StampedToday(sprint_board'[i])
                            /\ Cardinality({m \in 1..Len(sent') :
                                              InMessage(sent', m, task)}) = 1
             /\ \A i, j \in 1..Len(sprint_board) :
                  (/\ sprint_board[i].assigned_to = sprint_board[j].assigned_to
                   /\ InBatch(sprint_board, sprint_board[i])
                   /\ InBatch(sprint_board, sprint_board[j]))
                  => \A m \in 1..Len(sent') :
                        InMessage(sent', m, sprint_board[i])
                          <=> InMessage(sent', m, sprint_board[j])]_vars

\* one run alerted john of his two overdue tasks in one message and
\* stamped both
C30_Witness ==
    /\ lastEvent = AlertRun
    /\ Len(sent) = 1
    /\ Len(sent[1].buttons) = 2
    /\ Len(sprint_board) = 2
    /\ \A i \in 1..2 :
          /\ sprint_board[i].assigned_to = u_john.name
          /\ IsOverdue(sprint_board[i])
          /\ InMessage(sent, 1, sprint_board[i])
          /\ sprint_board[i].last_alerted = now_datetime


-----------------------------------------------------------------------------
(* Failures of one recipient in a run, checked under SpecAlerts             *)

\* the rows of b in the batch of `user`
BatchRows(b, user) ==
    {i \in 1..Len(b) : b[i].assigned_to = user /\ InBatch(b, b[i])}

\* the run that leaves r from b, the lookups and sends of `failing` raising,
\* keeps the failures to their recipients: the batch of a user of `failing`
\* or without a phone is in no message and its rows are as before; the
\* batch of any other user is in one message to that user's number and all
\* of its rows are stamped
Isolated(b, failing, r) ==
    \A user \in AlertUsers :
        LET rows == BatchRows(b, user)
            number == RemoveChars(mobile_no_of(user), {" ", "-", "+"})
        IN  IF user \in failing \/ mobile_no_of(user) = << >>
            THEN \A i \in rows : ~InAlert(r.sent, b[i]) /\ r.board[i] = b[i]
            ELSE rows # {}
                 => /\ Cardinality({m \in 1..Len(r.sent) : r.sent[m].to = number}) = 1
                    /\ \A i \in rows :
                          /\ \E m \in 1..Len(r.sent) :
                                r.sent[m].to = number /\ InMessage(r.sent, m, b[i])
                          /\ r.board[i].last_alerted = now_datetime

\* C31: in one run of send_overdue_task_alerts a failure to resolve the
\* phone of, or to send to, one assignee leaves that assignee's tasks with
\* last_alerted unchanged and keeps no other assignee with eligible tasks
\* from being sent their alert and having their tasks stamped.
C31_FailuresIsolated ==
    [][lastEvent' = AlertRun
       => \A failing \in SUBSET AlertUsers :
            LET r == send_overdue_task_alerts(sprint_board, failing)
            IN  (sprint_board' = r.board /\ sent' = r.sent)
                => Isolated(sprint_board, failing, r)]_vars

\* the send to john, the assignee of the first task, failed: the task is
\* overdue and unstamped after the run, and dora, the assignee of the
\* second, was alerted of it and the task stamped
C31_Witness ==
    /\ lastEvent = AlertRun
    /\ Len(sprint_board) = 2
    /\ sprint_board[1].assigned_to = u_john.name
    /\ IsOverdue(sprint_board[1])
    /\ ~StampedToday(sprint_board[1])
    /\ sprint_board[2].assigned_to = u_dora.name
    /\ Len(sent) = 1
    /\ sent[1].to = <<"5", "5", "3">>
    /\ InMessage(sent, 1, sprint_board[2])
    /\ sprint_board[2].last_alerted = now_datetime


-----------------------------------------------------------------------------
(* SpecRace: two requests of one user inside set_context at the same time.  *)
(* Each request runs the statements of set_context in order, one database   *)
(* statement a step: frappe.db.exists, then get_doc and save, or insert.    *)
(* The write and its commit are one step; a writer that has to wait for the *)
(* lock of the other sees the other's row when it goes on.                  *)

RaceTypes == {"pending_tasks", "task_list_context"}
RacePayloads == {p_target, p_list}

\* a request inside set_context(phone_number, context_type, context_data):
\* pc is the statement it runs next, or done or raised; stale says that the
\* document it loaded was saved by the other request since
RaceCall(context_type, context_data, pc, stale) ==
    [context_type |-> context_type, context_data |-> context_data, pc |-> pc,
     stale |-> stale]

\* the two requests in flight as the event being handled
RaceEvent(phone_number, calls) ==
    [from |-> phone_number, content_type |-> "set_context_race", message |-> calls,
     fail_at |-> 0]

InRace == lastEvent.content_type = "set_context_race"

\* both requests have returned or raised
RaceOver ==
    InRace /\ \A p \in 1..2 : lastEvent.message[p].pc \in {"done", "raised"}

\* the request p moves to pc, with the stale flag given
RaceMove(p, pc, stale) ==
    lastEvent' = [lastEvent EXCEPT !.message[p].pc = pc, !.message[p].stale = stale]

\* the request p has written its type and payload: it is done, and a
\* document the other request has loaded is stale
RaceWritten(p) ==
    lastEvent' = [lastEvent EXCEPT
        !.message = [q \in 1..2 |->
            IF q = p THEN [lastEvent.message[q] EXCEPT !.pc = "done"]
            ELSE IF lastEvent.message[q].pc = "save"
                 THEN [lastEvent.message[q] EXCEPT !.stale = TRUE]
                 ELSE lastEvent.message[q]]]

\* two messages of the sender arrive together and both handlers call
\* set_context
RaceBegin ==
    /\ ~InRace \/ RaceOver
    /\ \E t1 \in RaceTypes, t2 \in RaceTypes, d1 \in RacePayloads, d2 \in RacePayloads :
          lastEvent' = RaceEvent(Phone1, <<RaceCall(t1, d1, "exists", FALSE),
                                           RaceCall(t2, d2, "exists", FALSE)>>)
    /\ handledBy' = "set_context"
    /\ raised' = FALSE
    /\ UNCHANGED <<ctx, sprint_board, sent>>

\* if frappe.db.exists("WhatsApp Chat Context", phone_number)
RaceExists ==
    \E p \in 1..2 :
        /\ InRace /\ lastEvent.message[p].pc = "exists"
        /\ RaceMove(p, IF ctx[lastEvent.from].exists THEN "get_doc" ELSE "insert", FALSE)
        /\ UNCHANGED <<ctx, sprint_board, sent, handledBy, raised>>

\* doc = frappe.get_doc("WhatsApp Chat Context", phone_number)
RaceGetDoc ==
    \E p \in 1..2 :
        /\ InRace /\ lastEvent.message[p].pc = "get_doc"
        /\ RaceMove(p, "save", FALSE)
        /\ UNCHANGED <<ctx, sprint_board, sent, handledBy, raised>>

\* doc.save(): Document.save compares the modified stamp of the document
\* loaded with the row and raises TimestampMismatchError when they differ
RaceSave ==
    \E p \in 1..2 :
        /\ InRace /\ lastEvent.message[p].pc = "save"
        /\ IF lastEvent.message[p].stale
           THEN /\ RaceMove(p, "raised", TRUE)
                /\ raised' = TRUE
                /\ UNCHANGED ctx
           ELSE /\ RaceWritten(p)
                /\ ctx' = set_context(ctx, lastEvent.from, lastEvent.message[p].context_type,
                                      lastEvent.message[p].context_data)
                /\ UNCHANGED raised
        /\ UNCHANGED <<sprint_board, sent, handledBy>>

\* doc.insert(): the document is named after the phone number, and a second
\* row of that name is a DuplicateEntryError, which set_context logs and
\* raises again
RaceInsert ==
    \E p \in 1..2 :
        /\ InRace /\ lastEvent.message[p].pc = "insert"
        /\ IF ctx[lastEvent.from].exists
           THEN /\ RaceMove(p, "raised", FALSE)
                /\ raised' = TRUE
                /\ UNCHANGED ctx
           ELSE /\ RaceWritten(p)
                /\ ctx' = set_context(ctx, lastEvent.from, lastEvent.message[p].context_type,
                                      lastEvent.message[p].context_data)
                /\ UNCHANGED raised
        /\ UNCHANGED <<sprint_board, sent, handledBy>>

NextRace ==
    \/ RaceBegin
    \/ RaceExists
    \/ RaceGetDoc
    \/ RaceSave
    \/ RaceInsert

SpecRace == Init /\ [][NextRace]_vars

\* the document set_context writes for the request
RaceDoc(call) ==
    set_context(ctx, lastEvent.from, call.context_type, call.context_data)[lastEvent.from]

\* C32: set_context is atomic per user key: for any interleaving of two
\* set_context calls for the same user, also when no record exists yet,
\* neither call fails and the stored context afterwards is exactly the type
\* and payload of one of the two calls.
C32_SetContextAtomic ==
    RaceOver
    => /\ \A p \in 1..2 : lastEvent.message[p].pc = "done"
       /\ \E p \in 1..2 : ctx[lastEvent.from] = RaceDoc(lastEvent.message[p])


-----------------------------------------------------------------------------
(* The stored page and the end of the list, checked under SpecList          *)

\* C33: the page stored in task_list_context never passes the last page:
\* after any number of `more` inputs, text or Load More button, on a list
\* of N >= 1 tasks, page * 9 < N holds and every page sent offers at least
\* one task button.
C33_PageWithinList ==
    \A u \in Senders :
        LET d == get_context_data(ctx, u, "task_list_context")
        IN  HasTaskList(d)
            => /\ GetOr(d, "page", PyInt(0)).val * TASKS_PER_PAGE < Len(Get(d, "tasks").val)
               /\ \A i \in 1..Len(sent) :
                    sent[i].text = "task_list"
                    => \E k \in 1..Len(sent[i].buttons) :
                          sent[i].buttons[k].id[1] = "SELECT_TASK"


-----------------------------------------------------------------------------
(* Guided-flow buttons out of step, checked under Spec                      *)

\* `event` is a guided deadline button of u
IsGuidedDeadline(event, u) ==
    event \in {ButtonEvent(u, <<"GUIDED", t>>, 0) : t \in {"TODAY", "TOMORROW"}}

\* `event` is a guided assignee button of u
IsGuidedAssign(event, u) ==
    \/ event = ButtonEvent(u, <<"GUIDED_ASSIGN_ME">>, 0)
    \/ \E user_name \in ButtonUsers : IsGuidedAssignee(event, u, user_name)

\* every task of the batch has a task_name, a deadline and an assignee
Complete(batch) ==
    Truthy(batch)
    => \A i \in 1..Len(batch.val) :
          \A key \in {"task_name", "deadline", "assignee"} :
             HasKey(batch.val[i], key) /\ Truthy(Get(batch.val[i], key))

\* C34: a guided-flow button received out of step is a no-op on the flow:
\* GUIDED_TODAY/GUIDED_TOMORROW when the step is not "deadline", or
\* GUIDED_ASSIGN_ME/GUIDED_ASSIGNEE when the step is not "assignee", leaves
\* the guided_flow context unchanged and raises nothing; and every task
\* that reaches the pending batch has a task_name, a deadline and an
\* assignee.
C34_OutOfStepButtons ==
    [][\A u \in Senders :
          /\ (/\ has_context(ctx, u, "guided_flow")
              /\ \/ IsGuidedDeadline(lastEvent', u) /\ GuidedStep(ctx, u) # "deadline"
                 \/ IsGuidedAssign(lastEvent', u) /\ GuidedStep(ctx, u) # "assignee")
             => /\ ctx' = ctx
                /\ ~raised'
          /\ Complete(PendingBatch(ctx', u))]_vars


-----------------------------------------------------------------------------
(* SpecPick: chains whose tasks have different candidates                   *)

\* a task with the candidates of "al", then one with those of "o"
q_al_then_o == <<"n","e","w"," ","A","|","@","a","l","\n","B","|","@","o">>
\* the other way round
q_o_then_al == <<"n","e","w"," ","A","|","@","o","\n","B","|","@","a","l">>
\* one task with the candidates of "o"
q_o == <<"n","e","w"," ","A","|","@","o">>

PickTexts == {q_al_then_o, q_o_then_al, q_o, q_one_ambiguous}

NextPick ==
    \/ OnText(PickTexts)
    \/ OnAssignUser
    \/ OnConfirmTasks
    \/ OnCancelTasks

SpecPick == Init /\ [][NextPick]_vars

\* the users offered for the task displayed
MatchNames(task_info) ==
    {Get(Get(task_info, "matches").val[i], "name").val :
        i \in 1..Len(Get(task_info, "matches").val)}

\* C35: in the ambiguous-assignee chain an ASSIGN_USER button whose user is
\* not among the candidates stored for the item displayed, such as a button
\* of an earlier prompt pressed again, does not resolve that item: the
\* chain is stored as before, so that the assignee recorded for a resolved
\* task is always one of its candidates.
C35_OnlyCandidatesResolve ==
    [][\A u \in Senders, user_name \in ButtonUsers :
          LET data == get_context_data(ctx, u, "pending_task_assign")
          IN  (/\ Truthy(data)
               /\ IsAssignUser(lastEvent', u, user_name)
               /\ user_name \notin MatchNames(Get(data, "task_info")))
              => /\ get_context_data(ctx', u, "pending_task_assign") = data
                 /\ ~has_context(ctx', u, "pending_tasks")]_vars


-----------------------------------------------------------------------------
(* SpecConfirm: the preview, its deadline edit and its confirmation         *)

ConfirmTexts == {e_two_own, q_own, s_tomorrow}

NextConfirm ==
    \/ OnText(ConfirmTexts)
    \/ OnChangeDeadline
    \/ OnDeadlineButton
    \/ OnConfirmTasks
    \/ OnCancelTasks

SpecConfirm == Init /\ [][NextConfirm]_vars

\* C36: entering the deadline-edit sub-flow never makes the pending batch
\* unconfirmable: from the preview of N pending tasks, CHANGE_DEADLINE
\* followed directly by CONFIRM_TASKS, no deadline entered, still creates
\* the N tasks and does not answer that no pending tasks exist.
C36_ConfirmAfterChangeDeadline ==
    [][\A u \in Senders :
          LET d == get_context_data(ctx, u, "deadline_edit")
          IN  (/\ lastEvent = ButtonEvent(u, <<"CHANGE_DEADLINE">>, 0)
               /\ Truthy(d)
               /\ IsConfirm(lastEvent', u, 0))
              => /\ CreatedFrom(sprint_board, sprint_board', Get(d, "tasks").val)
                 /\ \A i \in 1..Len(sent') : sent'[i].text # "no_pending_tasks_found"]_vars


-----------------------------------------------------------------------------
(* A second confirmation, checked under SpecPick                            *)

\* the last event of u was a CONFIRM_TASKS that created its batch
ConfirmedBatch(u) ==
    /\ IsConfirm(lastEvent, u, 0)
    /\ Len(sent) > 0
    /\ sent[1].text = "tasks_created"

\* C37: when CONFIRM_TASKS has succeeded for a batch, a second
\* CONFIRM_TASKS from the same user with no new batch in between creates
\* no further task and answers that no pending tasks were found.
C37_ConfirmIdempotent ==
    [][\A u \in Senders :
          (ConfirmedBatch(u) /\ IsConfirm(lastEvent', u, 0))
          => /\ sprint_board' = sprint_board
             /\ sent' = <<send_reply(u, "no_pending_tasks_found", << >>)>>]_vars

\* the one task, created for alice, is alone on the Sprint Board after a
\* CONFIRM_TASKS that found no batch
C37_Witness ==
    /\ IsConfirm(lastEvent, Phone1, 0)
    /\ sent = <<send_reply(Phone1, "no_pending_tasks_found", << >>)>>
    /\ Len(sprint_board) = 1
    /\ sprint_board[1].assigned_to = u_alice.name


-----------------------------------------------------------------------------
(* SpecTrigger: every trigger keyword on a line of its own before one task  *)

TriggerLines == {<<"A">>, <<"B","|","@","b","o">>}

\* the trigger keyword, a newline and the task line
TriggerMessage(T, X) == T \o <<"\n">> \o X

TriggerTexts ==
    {TriggerMessage(TASK_CREATE_TRIGGERS[i], X) :
        i \in 1..Len(TASK_CREATE_TRIGGERS), X \in TriggerLines}

NextTrigger ==
    \/ OnText(TriggerTexts)
    \/ OnConfirmTasks
    \/ OnCancelTasks

SpecTrigger == Init /\ [][NextTrigger]_vars

\* C38: for every trigger keyword T of TASK_CREATE_TRIGGERS and every task
\* line X, the message made of T, a newline and X yields exactly one task
\* line, equal to X: the whole keyword is removed and no fragment of it
\* becomes a task; the batch shown for the message holds one task.
C38_WholeTriggerRemoved ==
    [][\A u \in Senders, i \in 1..Len(TASK_CREATE_TRIGGERS), X \in TriggerLines :
          LET message == TriggerMessage(TASK_CREATE_TRIGGERS[i], X)
          IN  lastEvent' = TextEvent(u, message)
              => /\ get_task_lines(message, is_task_creation_trigger(message).val) = <<X>>
                 /\ Truthy(PendingBatch(ctx', u))
                 /\ Len(PendingBatch(ctx', u).val) = 1]_vars


-----------------------------------------------------------------------------
(* lose_notion/doctype/task_tracker/task_tracker.py: the Task Tracker       *)
(* document and its child table.  Under SpecTracker the variable            *)
(* sprint_board holds the rows of task_tracker_table, which have the fields *)
(* of a Sprint Board row.                                                   *)

MaxRows == 2

\* task_was_modified(old_task, new_task)
task_was_modified(old_task, new_task) ==
    \/ old_task.task_name # new_task.task_name
    \/ old_task.assigned_to # new_task.assigned_to
    \/ old_task.status # new_task.status
    \/ old_task.deadline # new_task.deadline

\* set_task_defaults(doc) for the session user
set_task_defaults(table, user) ==
    [i \in 1..Len(table) |->
        [table[i] EXCEPT !.created_by = IF @ = << >> THEN user ELSE @,
                         !.assigned_to = IF @ = << >> THEN user ELSE @]]

\* revert_unauthorized_changes(doc): old_table is the table of
\* get_doc_before_save(), table the one being saved, user and roles those of
\* the session; the answer is the table after it and reverted_count
revert_unauthorized_changes(old_table, table, user, roles) ==
    LET current_task_names == {table[i].name : i \in {j \in 1..Len(table) : table[j].name # << >>}}
        blocked_deletes ==
            SelectSeq(old_table, LAMBDA old_task :
                old_task.name \notin current_task_names /\ old_task.created_by # user)
        restored == table \o blocked_deletes
        Old(name) == old_table[CHOOSE k \in 1..Len(old_table) : old_table[k].name = name]
        Known(task) == task.name # << >> /\ \E k \in 1..Len(old_table) : old_table[k].name = task.name
        Reverts(task) ==
            /\ Known(task)
            /\ ~(Old(task.name).created_by = user \/ Old(task.name).assigned_to = user)
            /\ task_was_modified(Old(task.name), task)
        Reverted(task) ==
            [task EXCEPT !.task_name = Old(task.name).task_name,
                         !.assigned_to = Old(task.name).assigned_to,
                         !.status = Old(task.name).status,
                         !.deadline = Old(task.name).deadline,
                         !.completed_date = Old(task.name).completed_date]
    IN  IF user = <<"A","d","m","i","n","i","s","t","r","a","t","o","r">>
           \/ "Task Admin" \in roles \/ "Task User" \notin roles
        THEN [table |-> table, reverted_count |-> 0]
        ELSE [table |-> [i \in 1..Len(restored) |->
                            IF Reverts(restored[i]) THEN Reverted(restored[i])
                            ELSE restored[i]],
              reverted_count |-> Len(blocked_deletes)
                  + Cardinality({i \in 1..Len(restored) : Reverts(restored[i])})]

\* the rows given a name when the document is stored: the first id no row
\* of the old or the new table has
RECURSIVE NameRows(_, _)
NameRows(table, taken) ==
    IF Len(table) = 0 THEN << >>
    ELSE IF table[1].name # << >> THEN <<table[1]>> \o NameRows(Tail(table), taken)
    ELSE LET id == TaskId(CHOOSE n \in 1..(Cardinality(taken) + 1) :
                        /\ TaskId(n) \notin taken
                        /\ \A m \in 1..(n - 1) : TaskId(m) \in taken)
         IN  <<[table[1] EXCEPT !.name = id]>> \o NameRows(Tail(table), taken \cup {id})

\* the sessions that save the document: a Task User, a Task Admin and the
\* Administrator
TrackerSessions ==
    {[user |-> u_john.name, roles |-> {"Task User"}],
     [user |-> u_alice.name, roles |-> {"Task User", "Task Admin"}],
     [user |-> <<"A","d","m","i","n","i","s","t","r","a","t","o","r">>, roles |-> {}]}

\* what the form changes in one row before the save
TrackerEdits ==
    {"delete", "task_name", "assigned_to", "status", "deadline", "completed_date"}

\* the row with the field changed to the value the form enters
EditedRow(task, edit) ==
    CASE edit = "task_name" ->
            [task EXCEPT !.task_name = <<"U">>]
      [] edit = "assigned_to" ->
            [task EXCEPT !.assigned_to = u_john.name]
      [] edit = "status" ->
            [task EXCEPT !.status = "Completed"]
      [] edit = "deadline" ->
            [task EXCEPT !.deadline = PyDate(Today + 1)]
      [] edit = "completed_date" ->
            [task EXCEPT !.completed_date = today]

\* the table the form submits: row i deleted or edited, or (i = 0) no row
\* touched and a new, empty row added or not
SubmittedTable(table, i, edit, add) ==
    LET kept == IF i = 0 THEN table
                ELSE IF edit = "delete"
                THEN SubSeq(table, 1, i - 1) \o SubSeq(table, i + 1, Len(table))
                ELSE [table EXCEPT ![i] = EditedRow(table[i], edit)]
        new_row == [name |-> << >>, task_name |-> <<"N">>, status |-> "Not Started",
                    assigned_to |-> << >>, deadline |-> PyDate(Today), created_by |-> << >>,
                    completed_date |-> PyNone, last_alerted |-> PyNone]
    IN  IF add THEN Append(kept, new_row) ELSE kept

\* a save of the Task Tracker as an event: message holds the session user
\* and its roles
TrackerSave(session) ==
    [from |-> Phone1, content_type |-> "save", message |-> <<session.user, session.roles>>,
     fail_at |-> 0]

\* doc.save(): validate, then before_save, then the rows are stored
SaveTracker ==
    \E session \in TrackerSessions, i \in 0..Len(sprint_board), edit \in TrackerEdits,
       add \in BOOLEAN :
        LET table == SubmittedTable(sprint_board, i, edit, add)
            r == revert_unauthorized_changes(sprint_board, table, session.user, session.roles)
            names == {sprint_board[k].name : k \in 1..Len(sprint_board)}
        IN  /\ i = 0 => edit = "delete"
            /\ add => i = 0
            /\ Len(r.table) <= MaxRows
            /\ lastEvent' = TrackerSave(session)
            /\ sprint_board' = NameRows(set_task_defaults(r.table, session.user), names)
            /\ sent' = IF r.reverted_count > 0
                       THEN <<[to |-> session.user, text |-> "changes_reverted",
                               args |-> << >>, content_type |-> "msgprint",
                               buttons |-> << >>]>>
                       ELSE << >>
            /\ handledBy' = "revert_unauthorized_changes"
            /\ raised' = FALSE
            /\ UNCHANGED ctx

\* a row of the document as earlier saves left it
TrackerRow(n, created_by, assigned_to) ==
    [name |-> TaskId(n), task_name |-> <<"T">>, status |-> "Not Started",
     assigned_to |-> assigned_to, deadline |-> PyDate(Today), created_by |-> created_by,
     completed_date |-> PyNone, last_alerted |-> PyNone]

InitTracker ==
    /\ ctx = [p \in Phones |-> NoDoc]
    /\ sprint_board \in
          {<<TrackerRow(1, c1, a1), TrackerRow(2, c2, a2)>> :
              c1 \in {u_john.name, u_alice.name}, a1 \in {u_john.name, u_alice.name},
              c2 \in {u_alice.name}, a2 \in {u_john.name, u_alice.name}}
    /\ sent = << >>
    /\ lastEvent = NoEvent
    /\ handledBy = "none"
    /\ raised = FALSE

NextTracker == SaveTracker

SpecTracker == InitTracker /\ [][NextTracker]_vars

\* the row of `table` named as `task`, if there is one, has the task_name,
\* assigned_to, status, deadline and completed_date of `task`
KeepsRow(table, task) ==
    \E j \in 1..Len(table) :
        /\ table[j].name = task.name
        /\ table[j].task_name = task.task_name
        /\ table[j].assigned_to = task.assigned_to
        /\ table[j].status = task.status
        /\ table[j].deadline = task.deadline
        /\ table[j].completed_date = task.completed_date

\* C39: when a user with the role Task User, who is neither Administrator
\* nor Task Admin, saves the existing Task Tracker document, every row they
\* neither created nor are assigned to keeps its task_name, assigned_to,
\* status, deadline and completed_date, and every row they did not create
\* that they removed is present again after validation.
C39_ForeignRowsKept ==
    [][(/\ lastEvent'.content_type = "save"
        /\ lastEvent'.message[1] # <<"A","d","m","i","n","i","s","t","r","a","t","o","r">>
        /\ "Task User" \in lastEvent'.message[2]
        /\ "Task Admin" \notin lastEvent'.message[2])
       => \A i \in 1..Len(sprint_board) :
            LET task == sprint_board[i]
                user == lastEvent'.message[1]
            IN  /\ (task.created_by # user /\ task.assigned_to # user)
                   => KeepsRow(sprint_board', task)
                /\ task.created_by # user
                   => \E j \in 1..Len(sprint_board') : sprint_board'[j].name = task.name]_vars

====
